---- MODULE Spec2Model ----
(***************************************************************************)
(* Model of the recommendation backend (src/backend/main.py) and of its   *)
(* RDM score calculator (src/backend/rdm_calculator.py).                   *)
(*                                                                         *)
(* Text is modelled as sequences of one-character strings, so that the    *)
(* code's substring tests (`kw in title_lower`, `'/s?k=' in url`) are      *)
(* computed and not assumed.                                               *)
(*                                                                         *)
(* Specifications:                                                         *)
(*   SpecClassify  the category cascade of call_llm_for_product_names      *)
(*   SpecRdm       calculate_rdm_scores applied to a list of products       *)
(*   SpecParse     the parsing of the name generator's response text       *)
(*   SpecGen       credential pool, retry policy and name generation of    *)
(*                 successive /recommend requests, up to the search stage  *)
(*   Spec          one /recommend request from the search stage on:        *)
(*                 lookups, enrichment, candidate building, quality        *)
(*                 filter and response                                     *)
(*   SpecLive      the same with fairness and collaborators that may not   *)
(*                 answer                                                  *)
(***************************************************************************)
EXTENDS Integers, Sequences, FiniteSets, TLC

VARIABLES
    \* ---- SpecClassify
    cl_title,           \* product_title handed to the cascade
    cl_category,        \* category it assigned ("" before it ran)
    \* ---- SpecRdm: one call of calculate_rdm_scores
    rdm_products,       \* products
    rdm_category,       \* category
    rdm_output,         \* the list it returned, as [called, scored]
    \* ---- SpecParse: the response text of the name generator
    llm_text,           \* text
    llm_data,           \* what parsing gave, as [state, names]
    \* ---- SpecGen: process-wide state (main.py:90-91, 183)
    n_keys,             \* len(GEMINI_API_KEYS)
    current_key_index,  \* global current_key_index
    configured_key,     \* index of the key last given to genai.configure
    served,             \* requests that have left the generator stage
    last_end_index,     \* current_key_index when the previous request left it
    req,                \* per request: position and locals of the generator stage
    \* ---- Spec: one request from the search stage on
    pc,                 \* "idle" | "search" | "enrich" | "build" | "done"
    source_site,        \* extract_source(url)
    category,           \* category the generator stage settled on
    product_names,      \* names the generator stage delivered
    search_results,     \* gather slots of the lookups
    lookup_done,        \* per slot: how its lookup ended, "pending" while it runs
    gemini_results,     \* gather slots of the enrichment calls
    alternatives,       \* candidates built from the slots
    filter_trace,       \* per built candidate: quality score and verdict
    response            \* what get_recommendations returned or raised

clVars == <<cl_title, cl_category>>
fnVars == <<rdm_products, rdm_category, rdm_output, llm_text, llm_data>>
genVars == <<n_keys, current_key_index, configured_key, served, last_end_index, req>>
pipeVars == <<pc, source_site, category, product_names, search_results,
              lookup_done, gemini_results, alternatives, filter_trace,
              response>>
vars == <<clVars, fnVars, genVars, pipeVars>>

(***************************************************************************)
(* Text helpers: Python's str operations on character sequences.           *)
(***************************************************************************)
UpperAlpha == <<"A","B","C","D","E","F","G","H","I","J","K","L","M","N","O","P","Q","R","S","T","U","V","W","X","Y","Z">>
LowerAlpha == <<"a","b","c","d","e","f","g","h","i","j","k","l","m","n","o","p","q","r","s","t","u","v","w","x","y","z">>

\* lower-case letter of every upper-case letter
LowerOf ==
    [c \in {UpperAlpha[i] : i \in 1..26} |->
        LowerAlpha[CHOOSE i \in 1..26 : UpperAlpha[i] = c]]

\* str.lower() on one character
LowerChar(c) == IF c \in DOMAIN LowerOf THEN LowerOf[c] ELSE c

\* str.lower()
Lower(s) == [i \in 1..Len(s) |-> LowerChar(s[i])]

\* `k in s` for strings
Contains(s, k) ==
    \E i \in 1..(Len(s) - Len(k) + 1) : SubSeq(s, i, i + Len(k) - 1) = k

\* any(keyword in s for keyword in kws)
AnyIn(kws, s) == \E k \in kws : Contains(s, k)

\* ' '.join(words)
RECURSIVE JoinWords(_)
JoinWords(ws) ==
    IF Len(ws) = 0 THEN <<>>
    ELSE IF Len(ws) = 1 THEN ws[1]
    ELSE ws[1] \o <<" ">> \o JoinWords(Tail(ws))

\* s.replace(' ', '+')
ReplaceSpaces(s) == [i \in 1..Len(s) |-> IF s[i] = " " THEN "+" ELSE s[i]]

\* python's a[:n]
Take(s, n) == SubSeq(s, 1, IF Len(s) < n THEN Len(s) ELSE n)

(***************************************************************************)
(* Category cascade (main.py:428-511): the if/elif chain with the code's   *)
(* keyword lists, first match wins.                                        *)
(***************************************************************************)
\* main.py:472-478: the stand check nested in the tablet rule
TabletRule(t) ==
    IF AnyIn({<<"s","t","a","n","d">>, <<"h","o","l","d","e","r">>, <<"m","o","u","n","t">>}, t)
       /\ ~AnyIn({<<"i","d","e","a"," ","t","a","b">>, <<"g","a","l","a","x","y"," ","t","a","b">>, <<"m","i"," ","t","a","b">>, <<"l","e","n","o","v","o"," ","t","a","b">>,
                  <<"s","a","m","s","u","n","g"," ","t","a","b">>, <<"x","i","a","o","m","i"," ","t","a","b">>, <<"r","e","a","l","m","e"," ","t","a","b">>, <<"k","a","m","v","a","s">>,
                  <<"s","l","a","t","e">>, <<"s","m","a","r","t","c","h","o","i","c","e">>, <<"p","a","d">>, <<"x","i","a","o","m","i"," ","p","a","d">>,
                  <<"s","a","m","s","u","n","g"," ","p","a","d">>, <<"m","i"," ","p","a","d">>}, t)
    THEN <<"s","t","a","n","d","/","m","o","u","n","t">>
    ELSE <<"t","a","b","l","e","t">>

\* main.py:429-511
DetectCategory(product_title) ==
    LET t == Lower(product_title) IN
    IF AnyIn({<<"t","a","b","l","e">>, <<"d","e","s","k">>, <<"s","t","a","n","d"," ","t","a","b","l","e">>, <<"w","o","r","k","s","t","a","t","i","o","n">>}, t)
       /\ AnyIn({<<"l","a","p","t","o","p">>, <<"a","d","j","u","s","t","a","b","l","e">>, <<"h","e","i","g","h","t">>, <<"f","o","l","d","a","b","l","e">>, <<"p","o","r","t","a","b","l","e">>}, t)
    THEN <<"l","a","p","t","o","p"," ","t","a","b","l","e","/","d","e","s","k">>
    ELSE IF AnyIn({<<"b","a","c","k","p","a","c","k">>, <<"b","a","g"," ","p","a","c","k">>, <<"r","u","c","k","s","a","c","k">>}, t)
            /\ AnyIn({<<"l","a","p","t","o","p">>, <<"n","o","t","e","b","o","o","k">>, <<"m","a","c","b","o","o","k">>, <<"1","5">>, <<"1","6">>, <<"1","7">>}, t)
    THEN <<"l","a","p","t","o","p"," ","b","a","c","k","p","a","c","k">>
    ELSE IF AnyIn({<<"c","a","s","e">>, <<"c","o","v","e","r">>, <<"s","l","e","e","v","e">>, <<"b","a","g">>, <<"p","o","u","c","h">>, <<"h","o","l","d","e","r">>}, t)
            /\ AnyIn({<<"l","a","p","t","o","p">>, <<"n","o","t","e","b","o","o","k">>, <<"m","a","c","b","o","o","k">>}, t)
    THEN <<"l","a","p","t","o","p"," ","a","c","c","e","s","s","o","r","y">>
    ELSE IF AnyIn({<<"c","a","s","e">>, <<"c","o","v","e","r">>, <<"s","l","e","e","v","e">>, <<"p","o","u","c","h">>, <<"h","o","l","d","e","r">>, <<"p","r","o","t","e","c","t","o","r">>}, t)
            /\ AnyIn({<<"p","h","o","n","e">>, <<"m","o","b","i","l","e">>, <<"i","p","h","o","n","e">>, <<"s","m","a","r","t","p","h","o","n","e">>}, t)
    THEN <<"p","h","o","n","e"," ","a","c","c","e","s","s","o","r","y">>
    ELSE IF AnyIn({<<"c","h","a","r","g","e","r">>, <<"a","d","a","p","t","e","r">>, <<"c","a","b","l","e">>, <<"c","h","a","r","g","i","n","g">>}, t)
    THEN <<"c","h","a","r","g","e","r","/","c","a","b","l","e">>
    ELSE IF AnyIn({<<"s","t","a","n","d">>, <<"m","o","u","n","t">>, <<"h","o","l","d","e","r">>}, t) /\ ~AnyIn({<<"t","v">>, <<"m","o","n","i","t","o","r">>}, t)
    THEN <<"s","t","a","n","d","/","m","o","u","n","t">>
    ELSE IF AnyIn({<<"t","a","b","l","e","t">>, <<"i","p","a","d">>, <<"p","a","d">>}, t)
            \/ (AnyIn({<<"t","a","b">>}, t)
                /\ AnyIn({<<"i","d","e","a">>, <<"g","a","l","a","x","y">>, <<"m","i">>, <<"l","e","n","o","v","o">>, <<"s","a","m","s","u","n","g">>,
                          <<"x","i","a","o","m","i">>, <<"r","e","a","l","m","e">>, <<"k","a","m","v","a","s">>, <<"s","l","a","t","e">>,
                          <<"s","m","a","r","t","c","h","o","i","c","e">>}, t))
    THEN TabletRule(t)
    ELSE IF AnyIn({<<"l","a","p","t","o","p">>, <<"n","o","t","e","b","o","o","k">>, <<"c","h","r","o","m","e","b","o","o","k">>, <<"m","a","c","b","o","o","k">>}, t)
    THEN <<"l","a","p","t","o","p">>
    ELSE IF AnyIn({<<"k","e","y","b","o","a","r","d">>, <<"m","e","c","h","a","n","i","c","a","l"," ","k","e","y","b","o","a","r","d">>, <<"g","a","m","i","n","g"," ","k","e","y","b","o","a","r","d">>}, t)
    THEN <<"k","e","y","b","o","a","r","d">>
    ELSE IF AnyIn({<<"m","o","u","s","e">>, <<"g","a","m","i","n","g"," ","m","o","u","s","e">>, <<"w","i","r","e","l","e","s","s"," ","m","o","u","s","e">>}, t) THEN <<"m","o","u","s","e">>
    ELSE IF AnyIn({<<"p","h","o","n","e">>, <<"s","m","a","r","t","p","h","o","n","e">>, <<"m","o","b","i","l","e">>, <<"i","p","h","o","n","e">>}, t)
    THEN <<"s","m","a","r","t","p","h","o","n","e">>
    ELSE IF AnyIn({<<"s","p","e","a","k","e","r">>, <<"s","o","u","n","d","b","a","r">>}, t) THEN <<"s","p","e","a","k","e","r">>
    ELSE IF AnyIn({<<"e","a","r","b","u","d","s">>, <<"h","e","a","d","p","h","o","n","e","s">>, <<"e","a","r","p","h","o","n","e","s">>, <<"a","i","r","p","o","d","s">>}, t)
    THEN <<"e","a","r","b","u","d","s">>
    ELSE IF AnyIn({<<"w","a","t","c","h">>, <<"s","m","a","r","t","w","a","t","c","h">>}, t) THEN <<"s","m","a","r","t","w","a","t","c","h">>
    ELSE IF AnyIn({<<"m","o","n","i","t","o","r">>, <<"d","i","s","p","l","a","y">>, <<"s","c","r","e","e","n">>}, t) THEN <<"m","o","n","i","t","o","r">>
    ELSE <<"p","r","o","d","u","c","t">>

\* Words the classifier's titles are built from: the accessory and the
\* host-device keywords of the cascade, and brand / model words, some
\* capitalised as titles are.
TitleWords == {<<"L","a","p","t","o","p">>, <<"p","h","o","n","e">>, <<"T","a","b","l","e","t">>, <<"c","a","s","e">>, <<"s","t","a","n","d">>, <<"b","a","g">>,
               <<"c","h","a","r","g","e","r">>, <<"t","a","b","l","e">>, <<"G","a","l","a","x","y">>, <<"T","a","b">>, <<"T","V">>}

\* Longest title, in words.
MaxTitleWords == 2

WordSeqs == UNION {[1..n -> TitleWords] : n \in 1..MaxTitleWords}
ClassifierTitles == {JoinWords(ws) : ws \in WordSeqs}

(***************************************************************************)
(* Request URLs and title resolution (main.py:188-195, 862-928).           *)
(***************************************************************************)
\* The URL of test_full_flow.py, a Flipkart URL and a URL of neither site.
RequestUrls == {<<"h","t","t","p","s",":","/","/","w","w","w",".","a","m","a","z","o","n",".","i","n","/","d","p","/","B","0","8","N","5","W","R","W","N","W">>,
                <<"h","t","t","p","s",":","/","/","w","w","w",".","f","l","i","p","k","a","r","t",".","c","o","m","/","p","/","i","t","m","4","2">>,
                <<"h","t","t","p","s",":","/","/","s","h","o","p",".","e","x","a","m","p","l","e",".","c","o","m","/","i","t","e","m","/","4","2">>}

\* main.py:188-195
extract_source(url) ==
    LET url_str == Lower(url) IN
    IF Contains(url_str, <<"a","m","a","z","o","n">>) \/ Contains(url_str, <<"a","m","z","n">>) THEN "amazon"
    ELSE IF Contains(url_str, <<"f","l","i","p","k","a","r","t">>) THEN "flipkart"
    ELSE "unknown"

AsinChars == {UpperAlpha[i] : i \in 1..26}
             \cup {"0", "1", "2", "3", "4", "5", "6", "7", "8", "9"}

\* Length of the ASIN the code's pattern captures.
AsinLen == 10

\* Start positions of re.search(r'/dp/([A-Z0-9]{10})', url_str)
AsinStarts(url) ==
    {i \in 1..Len(url) :
        /\ i + 3 + AsinLen <= Len(url)
        /\ SubSeq(url, i, i + 3) = <<"/","d","p","/">>
        /\ \A j \in (i + 4)..(i + 3 + AsinLen) : url[j] \in AsinChars}

\* asin_match.group(1), <<>> when the pattern does not match
AsinOf(url) ==
    IF AsinStarts(url) = {} THEN <<>>
    ELSE LET i == CHOOSE k \in AsinStarts(url) : \A m \in AsinStarts(url) : k <= m
         IN SubSeq(url, i + 4, i + 3 + AsinLen)

\* Longest placeholder title cut from the URL (main.py:917, 928).
UrlTailLen == 50

\* url_str.split('/')[-1][:50]
UrlTail(url) ==
    LET slashes == {i \in 1..Len(url) : url[i] = "/"}
        last == IF slashes = {} THEN 0
                ELSE CHOOSE k \in slashes : \A m \in slashes : m <= k
    IN Take(SubSeq(url, last + 1, Len(url)), UrlTailLen)

\* main.py:903-917, the title substituted when scraping times out
TimeoutTitle(url) ==
    LET low == Lower(url) IN
    IF AsinOf(url) # <<>> THEN
        IF Contains(low, <<"l","a","p","t","o","p">>) \/ Contains(low, <<"n","o","t","e","b","o","o","k">>)
        THEN <<"L","a","p","t","o","p"," ","P","r","o","d","u","c","t"," ">> \o AsinOf(url)
        ELSE IF Contains(low, <<"p","h","o","n","e">>) \/ Contains(low, <<"m","o","b","i","l","e">>)
        THEN <<"S","m","a","r","t","p","h","o","n","e"," ","P","r","o","d","u","c","t"," ">> \o AsinOf(url)
        ELSE <<"P","r","o","d","u","c","t"," ">> \o AsinOf(url)
    ELSE UrlTail(url)

\* main.py:919-928, the title substituted when scraping raises
ErrorTitle(url) ==
    IF AsinOf(url) # <<>> THEN <<"P","r","o","d","u","c","t"," ">> \o AsinOf(url) ELSE UrlTail(url)

\* Titles the share text or the scraper delivers.
GenTitles == {<<"G","a","l","a","x","y"," ","T","a","b"," ","S","9">>, <<"H","P"," ","L","a","p","t","o","p"," ","1","5">>, <<"p","h","o","n","e"," ","c","a","s","e">>, <<"U","S","B"," ","h","u","b">>}

\* main.py:871-928: the title of scraped_data by the way it was obtained
ResolvedTitles(url, path) ==
    IF path \in {"share_text", "scraped"} THEN GenTitles
    ELSE IF path = "timeout" THEN {TimeoutTitle(url)}
    ELSE {ErrorTitle(url)}

(***************************************************************************)
(* Name generation (main.py:553-779) and its failure handling in           *)
(* get_recommendations (main.py:937-1049).                                 *)
(***************************************************************************)
\* retry_gemini_with_backoff(max_retries=3, base_delay=2)
MaxRetries == 3
BaseDelay == 2
\* at most three keys are loaded (primary, backup, backup 2)
MaxKeys == 3
\* fewest / most names that go on to the search stage
MinNames == 3
MaxNamesCap == 6

\* Requests served one after the other, and the most names the provider
\* returns in one answer.
MaxRequests == 2
MaxProviderNames == 7

DigitChars == <<"0","1","2","3","4","5","6","7","8","9">>
\* str(n) for 0 <= n <= 9
IntStr(n) == <<DigitChars[n + 1]>>

\* names the provider returns: "P1", "P2", ...
ProviderNames(k) == [i \in 1..k |-> <<"P">> \o IntStr(i)]

\* A padding loop that never runs.
PadNamesNever(names, cat) == names

\* main.py:764-766 (and 1048-1049): while len(product_names) < 3: append
RECURSIVE PadNames(_, _)
PadNames(names, cat) ==
    IF Len(names) < MinNames
    THEN PadNames(Append(names, <<"A","l","t","e","r","n","a","t","i","v","e"," ">> \o cat \o <<" ">> \o IntStr(Len(names) + 1)),
                  cat)
    ELSE names

\* main.py:759-775: the names call_llm_for_product_names returns
NamesFromData(names, cat) ==
    LET padded == PadNames(names, cat) IN
    IF Len(padded) > MaxNamesCap THEN Take(padded, MaxNamesCap) ELSE padded

\* main.py:1045-1064: product_names[:num_products]; the padding of line 1049
\* comes after num_products was computed
SearchNames(names, cat) ==
    LET num_products == IF Len(names) < MaxNamesCap THEN Len(names) ELSE MaxNamesCap
        padded == IF num_products < MinNames THEN PadNames(names, cat) ELSE names
    IN Take(padded, num_products)

TabletFallback == <<<<"S","a","m","s","u","n","g"," ","G","a","l","a","x","y"," ","T","a","b"," ","A","9">>, <<"L","e","n","o","v","o"," ","T","a","b"," ","M","1","0">>, <<"X","i","a","o","m","i"," ","P","a","d"," ","6">>,
                    <<"R","e","a","l","m","e"," ","P","a","d"," ","2">>, <<"A","p","p","l","e"," ","i","P","a","d"," ","1","0","t","h"," ","G","e","n">>, <<"O","n","e","P","l","u","s"," ","P","a","d">>>>
LaptopFallback == <<<<"H","P"," ","P","a","v","i","l","i","o","n"," ","1","5">>, <<"D","e","l","l"," ","I","n","s","p","i","r","o","n"," ","1","5">>, <<"L","e","n","o","v","o"," ","I","d","e","a","P","a","d"," ","3">>,
                    <<"A","S","U","S"," ","V","i","v","o","B","o","o","k"," ","1","5">>, <<"A","c","e","r"," ","A","s","p","i","r","e"," ","5">>, <<"M","S","I"," ","M","o","d","e","r","n"," ","1","5">>>>
PhoneFallback == <<<<"S","a","m","s","u","n","g"," ","G","a","l","a","x","y"," ","A","5","4">>, <<"O","n","e","P","l","u","s"," ","N","o","r","d"," ","3">>, <<"X","i","a","o","m","i"," ","R","e","d","m","i"," ","N","o","t","e"," ","1","3">>,
                   <<"R","e","a","l","m","e"," ","1","2"," ","P","r","o">>, <<"V","i","v","o"," ","V","2","9">>, <<"O","P","P","O"," ","R","e","n","o"," ","1","1">>>>
SpeakerFallback == <<<<"J","B","L"," ","F","l","i","p"," ","6">>, <<"S","o","n","y"," ","S","R","S","-","X","B","1","0","0">>, <<"b","o","A","t"," ","S","t","o","n","e"," ","1","2","0","0">>,
                     <<"B","o","s","e"," ","S","o","u","n","d","L","i","n","k"," ","F","l","e","x">>, <<"M","i","v","i"," ","R","o","a","m"," ","2">>,
                     <<"U","l","t","i","m","a","t","e"," ","E","a","r","s"," ","W","O","N","D","E","R","B","O","O","M"," ","3">>>>
\* generic names of the quota fallback / of the basic fallback
QuotaGenericCount == 5
BasicCount == 3
GenericFallback(title, k) == [i \in 1..k |-> title \o <<" ","A","l","t","e","r","n","a","t","i","v","e"," ">> \o IntStr(i)]

\* main.py:957-1021
QuotaFallback(title) ==
    LET t == Lower(title) IN
    IF AnyIn({<<"t","a","b","l","e","t">>, <<"i","p","a","d">>, <<"p","a","d">>}, t)
       \/ (AnyIn({<<"t","a","b">>}, t)
           /\ AnyIn({<<"i","d","e","a">>, <<"g","a","l","a","x","y">>, <<"l","e","n","o","v","o">>, <<"x","i","a","o","m","i">>, <<"s","a","m","s","u","n","g">>}, t))
    THEN [category |-> <<"t","a","b","l","e","t">>, product_names |-> TabletFallback]
    ELSE IF AnyIn({<<"l","a","p","t","o","p">>, <<"n","o","t","e","b","o","o","k">>}, t)
    THEN [category |-> <<"l","a","p","t","o","p">>, product_names |-> LaptopFallback]
    ELSE IF AnyIn({<<"p","h","o","n","e">>, <<"s","m","a","r","t","p","h","o","n","e">>, <<"m","o","b","i","l","e">>}, t)
    THEN [category |-> <<"s","m","a","r","t","p","h","o","n","e">>, product_names |-> PhoneFallback]
    ELSE IF AnyIn({<<"s","p","e","a","k","e","r">>, <<"s","o","u","n","d","b","a","r">>}, t)
    THEN [category |-> <<"s","p","e","a","k","e","r">>, product_names |-> SpeakerFallback]
    ELSE [category |-> <<"p","r","o","d","u","c","t">>,
          product_names |-> GenericFallback(title, QuotaGenericCount)]

\* main.py:1022-1041
BasicFallback(title) ==
    LET t == Lower(title) IN
    IF AnyIn({<<"l","a","p","t","o","p">>, <<"n","o","t","e","b","o","o","k">>}, t)
    THEN [category |-> <<"l","a","p","t","o","p">>, product_names |-> Take(LaptopFallback, BasicCount)]
    ELSE IF AnyIn({<<"t","a","b","l","e","t">>, <<"i","p","a","d">>, <<"p","a","d">>}, t)
    THEN [category |-> <<"t","a","b","l","e","t">>, product_names |-> Take(TabletFallback, BasicCount)]
    ELSE [category |-> <<"p","r","o","d","u","c","t">>,
          product_names |-> GenericFallback(title, BasicCount)]

\* A test that also takes an invalid-request error (400) for a transient one.
IsOverloadedOrInvalid(error_msg) ==
    \/ Contains(error_msg, <<"5","0","3">>) \/ Contains(Lower(error_msg), <<"o","v","e","r","l","o","a","d","e","d">>)
    \/ Contains(error_msg, <<"4","0","0">>)

\* main.py:581: '503' in error_msg or 'overloaded' in error_msg.lower()
IsOverloadedMessage(error_msg) ==
    Contains(error_msg, <<"5","0","3">>) \/ Contains(Lower(error_msg), <<"o","v","e","r","l","o","a","d","e","d">>)

\* main.py:582: 'quota' in error_msg.lower() or '429' in error_msg
IsQuotaError(error_msg) ==
    Contains(Lower(error_msg), <<"q","u","o","t","a">>) \/ Contains(error_msg, <<"4","2","9">>)

\* main.py:954: the same test with 'rate limit' added
IsQuotaMessage(error_msg) ==
    \/ Contains(Lower(error_msg), <<"q","u","o","t","a">>)
    \/ Contains(error_msg, <<"4","2","9">>)
    \/ Contains(Lower(error_msg), <<"r","a","t","e"," ","l","i","m","i","t">>)

\* main.py:612
MaxRetriesMessage(error_msg) ==
    <<"M","a","x"," ","r","e","t","r","i","e","s"," ","r","e","a","c","h","e","d"," ","f","o","r"," ","G","e","m","i","n","i"," ","A","P","I","."," ","L","a","s","t"," ","e","r","r","o","r",":"," ">> \o error_msg

\* A handler that substitutes names for a quota error only and lets every
\* other error go on to the caller.
HandleGeneratorFailureQuotaOnly(title, error_msg) ==
    IF IsQuotaMessage(error_msg)
    THEN [raised |-> FALSE, names |-> QuotaFallback(title)]
    ELSE [raised |-> TRUE, names |-> [category |-> <<>>, product_names |-> <<>>]]

\* main.py:945-1041: the except branch around call_llm_for_product_names
HandleGeneratorFailure(title, error_msg) ==
    [raised |-> FALSE,
     names |-> IF IsQuotaMessage(error_msg) THEN QuotaFallback(title)
               ELSE BasicFallback(title)]

\* An index that advances by two positions.
RotateIndexByTwo(idx) == idx + 2

\* An index that starts again at the first credential after the second.
RotateIndexWrap(idx) == IF idx + 1 >= 2 THEN 0 ELSE idx + 1

\* main.py:588: current_key_index += 1
RotateIndex(idx) == idx + 1

\* What model.generate_content does on one attempt: it raises (overloaded /
\* quota / anything else, a blocked prompt included), or it returns a
\* response: without candidates, blocked by the safety filter, without text,
\* with text no JSON can be recovered from (the decoder stopping at the
\* start of the text, or far into it), with JSON of another shape, or with
\* a list of k names.
ProviderErrors == {"overloaded", "quota", "other"}
ProviderBadResponses ==
    {"no_candidates", "safety", "empty", "unparsable", "unparsable_late", "bad_shape"}

\* str(e) of the exception an outcome ends in: the provider's message for an
\* error it raises, the message of the ValueError of main.py:622, 635, 685
\* and 756 (which quotes json's decode error with its position), and the
\* AttributeError of data.get on a JSON list (759).
ErrorMessage(kind) ==
    IF kind = "overloaded" THEN <<"5","0","3"," ","T","h","e"," ","m","o","d","e","l"," ","i","s"," ","o","v","e","r","l","o","a","d","e","d","."," ","P","l","e","a","s","e"," ","t","r","y"," ","a","g","a","i","n"," ","l","a","t","e","r",".">>
    ELSE IF kind = "quota" THEN <<"4","2","9"," ","Y","o","u"," ","e","x","c","e","e","d","e","d"," ","y","o","u","r"," ","c","u","r","r","e","n","t"," ","q","u","o","t","a">>
    ELSE IF kind = "other" THEN <<"4","0","0"," ","A","P","I"," ","k","e","y"," ","n","o","t"," ","v","a","l","i","d">>
    ELSE IF kind = "no_candidates"
    THEN <<"G","e","m","i","n","i"," ","A","P","I",":"," ","N","o"," ","r","e","s","p","o","n","s","e"," ","c","a","n","d","i","d","a","t","e","s"," ","r","e","t","u","r","n","e","d"," ","(","l","i","k","e","l","y"," ","s","a","f","e","t","y"," ","f","i","l","t","e","r",")">>
    ELSE IF kind = "safety" THEN <<"G","e","m","i","n","i"," ","A","P","I",":"," ","R","e","s","p","o","n","s","e"," ","b","l","o","c","k","e","d"," ","b","y"," ","s","a","f","e","t","y"," ","f","i","l","t","e","r">>
    ELSE IF kind = "empty"
    THEN <<"G","e","m","i","n","i"," ","A","P","I",":"," ","E","m","p","t","y"," ","r","e","s","p","o","n","s","e"," ","t","e","x","t"," ","(","f","i","n","i","s","h","_","r","e","a","s","o","n",":"," ","M","A","X","_","T","O","K","E","N","S",")">>
    ELSE IF kind = "unparsable"
    THEN <<"C","o","u","l","d"," ","n","o","t"," ","e","x","t","r","a","c","t"," ","o","r"," ","f","i","x"," ","J","S","O","N"," ","f","r","o","m"," ","A","I"," ","r","e","s","p","o","n","s","e","."," ","E","r","r","o","r",":"," ","E","x","p","e","c","t","i","n","g"," ","v","a","l","u","e",":"," ","l","i","n","e"," ","1"," ","c","o","l","u","m","n"," ","1"," ","(","c","h","a","r"," ","0",")">>
    ELSE IF kind = "unparsable_late"
    THEN <<"C","o","u","l","d"," ","n","o","t"," ","e","x","t","r","a","c","t"," ","o","r"," ","f","i","x"," ","J","S","O","N"," ","f","r","o","m"," ","A","I"," ","r","e","s","p","o","n","s","e","."," ","E","r","r","o","r",":"," ","E","x","p","e","c","t","i","n","g"," ","'",",","'"," ","d","e","l","i","m","i","t","e","r",":"," ","l","i","n","e"," ","1","2"," ","c","o","l","u","m","n"," ","5"," ","(","c","h","a","r"," ","4","2","9",")">>
    ELSE <<"'","l","i","s","t","'"," ","o","b","j","e","c","t"," ","h","a","s"," ","n","o"," ","a","t","t","r","i","b","u","t","e"," ","'","g","e","t","'">>
ProviderOutcomes ==
    [kind : ProviderErrors \cup ProviderBadResponses, n : {0}]
    \cup [kind : {"names"}, n : 0..MaxProviderNames]

IdleReq ==
    [pc |-> "idle", url |-> <<>>, title |-> <<>>, category |-> <<>>,
     attempt |-> 0, model_key |-> 0, start_index |-> 0,
     calls |-> <<>>, sleeps |-> <<>>, rotations |-> 0,
     fail_kind |-> "", gen_end |-> "", product_names |-> <<>>,
     search_names |-> <<>>]

\* Requests that can be in flight.
Reqs == {1, 2}

\* get_recommendations is entered (main.py:862-868)
StartRequest(r) ==
    /\ req[r].pc = "idle"
    /\ served < MaxRequests
    /\ \E u \in RequestUrls :
          req' = [req EXCEPT ![r] = [IdleReq EXCEPT !.pc = "resolve", !.url = u,
                                     !.start_index = current_key_index]]
    /\ UNCHANGED <<n_keys, current_key_index, configured_key, served, last_end_index,
                   clVars, fnVars, pipeVars>>

\* main.py:871-931 and 426-565: the title is resolved, the category is
\* detected and the model object is created with the configured key
ResolveTitle(r) ==
    /\ req[r].pc = "resolve"
    /\ \E path \in {"share_text", "scraped", "timeout", "error"} :
         \E t \in ResolvedTitles(req[r].url, path) :
            req' = [req EXCEPT ![r].pc = "attempt", ![r].title = t,
                               ![r].category = DetectCategory(t),
                               ![r].attempt = 0,
                               ![r].model_key = configured_key]
    /\ UNCHANGED <<n_keys, current_key_index, configured_key, served, last_end_index,
                   clVars, fnVars, pipeVars>>

\* The request after the generator call ended in an error (main.py:945-1041)
AfterFailure(q, kind, error_msg) ==
    LET h == HandleGeneratorFailure(q.title, error_msg)
        is_quota == IsQuotaMessage(error_msg)
    IN
    IF h.raised
    THEN [q EXCEPT !.pc = "failed", !.fail_kind = kind, !.gen_end = "raised"]
    ELSE [q EXCEPT !.pc = "search", !.fail_kind = kind,
                   !.gen_end = IF is_quota THEN "quota_fallback" ELSE "basic_fallback",
                   !.category = h.names.category,
                   !.product_names = h.names.product_names,
                   !.search_names = SearchNames(h.names.product_names, h.names.category)]

\* The request after the generator call returned k names (main.py:758-775,
\* 938-943, 1045-1064)
AfterNames(q, k) ==
    LET names == NamesFromData(ProviderNames(k), q.category) IN
    [q EXCEPT !.pc = "search", !.gen_end = "ok", !.product_names = names,
              !.search_names = SearchNames(names, q.category)]

\* One pass of the retry loop (main.py:567-612) with what follows it without
\* a suspension point: the response checks and parsing (619-775) and the
\* handling in get_recommendations (937-1049).
GenAttempt(r) ==
    /\ req[r].pc = "attempt"
    /\ \E out \in ProviderOutcomes :
        LET q == req[r]
            error_msg == ErrorMessage(out.kind)
            is_503 == IsOverloadedMessage(error_msg)
            is_quota == IsQuotaError(error_msg)
            is_last_attempt == q.attempt = MaxRetries - 1
            rotate == /\ out.kind \in ProviderErrors
                      /\ is_quota /\ current_key_index < n_keys - 1
            called == [q EXCEPT !.calls = Append(q.calls,
                          [key |-> q.model_key, kind |-> out.kind, rotated |-> rotate])]
        IN
        IF out.kind \in ProviderErrors THEN
            IF rotate THEN
                \* 587-601: switch to the next key and `continue`
                /\ current_key_index' = RotateIndex(current_key_index)
                /\ configured_key' = RotateIndex(current_key_index)
                /\ LET rotated == [called EXCEPT
                                      !.model_key = RotateIndex(current_key_index),
                                      !.rotations = q.rotations + 1]
                   IN req' = [req EXCEPT ![r] =
                         IF is_last_attempt
                         THEN \* the loop is over: line 612 raises
                              AfterFailure(rotated, out.kind, MaxRetriesMessage(error_msg))
                         ELSE [rotated EXCEPT !.attempt = q.attempt + 1]]
            ELSE IF ~is_503 \/ is_last_attempt THEN
                \* 603-604: raise
                /\ req' = [req EXCEPT ![r] = AfterFailure(called, out.kind, error_msg)]
                /\ UNCHANGED <<current_key_index, configured_key>>
            ELSE
                \* 606-609: await asyncio.sleep(delay)
                /\ req' = [req EXCEPT ![r] =
                      [called EXCEPT !.pc = "sleep",
                          !.sleeps = Append(q.sleeps, BaseDelay * (2 ^ q.attempt))]]
                /\ UNCHANGED <<current_key_index, configured_key>>
        ELSE
            /\ req' = [req EXCEPT ![r] =
                  IF out.kind = "names" THEN AfterNames(called, out.n)
                  ELSE AfterFailure(called, out.kind, ErrorMessage(out.kind))]
            /\ UNCHANGED <<current_key_index, configured_key>>
    /\ UNCHANGED <<n_keys, served, last_end_index, clVars, fnVars, pipeVars>>

\* A sleep after which the same pass of the loop is taken again.
WakeUpSameAttempt(r) ==
    /\ req[r].pc = "sleep"
    /\ req' = [req EXCEPT ![r].pc = "attempt"]
    /\ UNCHANGED <<n_keys, current_key_index, configured_key, served, last_end_index,
                   clVars, fnVars, pipeVars>>

\* The sleep is over: the next pass of the loop (main.py:609, 567)
WakeUp(r) ==
    /\ req[r].pc = "sleep"
    /\ req' = [req EXCEPT ![r].pc = "attempt", ![r].attempt = req[r].attempt + 1]
    /\ UNCHANGED <<n_keys, current_key_index, configured_key, served, last_end_index,
                   clVars, fnVars, pipeVars>>

\* The request goes on to its later stages, which leave the credential pool
\* alone, and ends.
FinishRequest(r) ==
    /\ req[r].pc \in {"search", "failed"}
    /\ req' = [req EXCEPT ![r] = IdleReq]
    /\ served' = served + 1
    /\ last_end_index' = current_key_index
    /\ UNCHANGED <<n_keys, current_key_index, configured_key, clVars, fnVars, pipeVars>>

(***************************************************************************)
(* The request from the search stage on (main.py:1043-1378): data.         *)
(***************************************************************************)
\* Python's None where a number is expected.
NoneInt == -1

\* Names the generator stage delivers to the search stage, and how many of
\* them one request of the model carries (the code carries 3 to 6).
PipelineNames == <<<<"h","p"," ","1","5">>, <<"d","e","l","l"," ","g","3">>, <<"g","e","n","e","r","i","c"," ","p","c">>, <<"a","c","e","r"," ","a","5">>, <<"m","s","i"," ","m","1","5">>,
                   <<"a","s","u","s"," ","x","5">>>>
MaxNames == 3
NameCounts == {n \in MinNames..MaxNames : n <= MaxNamesCap}
PipelineCategories == {<<"l","a","p","t","o","p">>}

NoData ==
    [has_title |-> FALSE, title |-> <<>>, price |-> <<>>, image_url |-> <<>>,
     rating |-> NoneInt, rating_count |-> NoneInt, url |-> <<>>, specs |-> <<>>]
SlotPending == [kind |-> "pending", data |-> NoData]
SlotException == [kind |-> "exception", data |-> NoData]
SlotNone == [kind |-> "none", data |-> NoData]

\* What search_product_scraperapi finds for a name: a complete result with a
\* direct product link; a result with an image only (no title, no price, no
\* link); a result with a price only, a placeholder title and a search link;
\* a result whose title and link are present but empty.
\* Ratings are in tenths of a star.
LookupKinds == {"full", "image_only", "generic_price", "empty_title"}

\* What the site lists for a name: price, rating and number of ratings.
Listing(name) ==
    IF name = <<"d","e","l","l"," ","g","3">>
    THEN [price |-> <<"I","N","R"," ","4","9",",","9","9","0">>, rating |-> 45, rating_count |-> 3400]
    ELSE IF name = <<"g","e","n","e","r","i","c"," ","p","c">>
    THEN [price |-> <<"I","N","R"," ","2","9",",","9","9","9">>, rating |-> 40, rating_count |-> 800]
    ELSE [price |-> <<"I","N","R"," ","5","4",",","9","9","0">>, rating |-> 43, rating_count |-> 1200]

LookupData(kind, name, site) ==
    IF kind = "full" THEN
        [has_title |-> TRUE, title |-> name \o <<" ","1","6","G","B"," ","R","A","M">>,
         price |-> Listing(name).price, image_url |-> <<"h","t","t","p","s",":","/","/","m",".","m","e","d","i","a","/","i","1",".","j","p","g">>,
         rating |-> Listing(name).rating, rating_count |-> Listing(name).rating_count,
         url |-> IF site = "flipkart" THEN <<"h","t","t","p","s",":","/","/","w","w","w",".","f","l","i","p","k","a","r","t",".","c","o","m","/","x","/","p","/","i","t","m","1">>
                 ELSE <<"h","t","t","p","s",":","/","/","w","w","w",".","a","m","a","z","o","n",".","i","n","/","d","p","/","B","0","C","1">>,
         specs |-> <<<<"C","o","r","e"," ","i","5","-","1","2","3","5","U">>>>]
    ELSE IF kind = "image_only" THEN
        [NoData EXCEPT !.image_url = <<"h","t","t","p","s",":","/","/","m",".","m","e","d","i","a","/","i","2",".","j","p","g">>]
    ELSE IF kind = "empty_title" THEN
        [has_title |-> TRUE, title |-> <<>>,
         price |-> Listing(name).price, image_url |-> <<"h","t","t","p","s",":","/","/","m",".","m","e","d","i","a","/","i","3",".","j","p","g">>,
         rating |-> Listing(name).rating, rating_count |-> Listing(name).rating_count,
         url |-> <<>>, specs |-> <<>>]
    ELSE
        [has_title |-> TRUE, title |-> <<"G","e","n","e","r","i","c"," ">> \o name,
         price |-> <<"I","N","R"," ","9","9","9",".","5","0">>, image_url |-> <<>>,
         rating |-> 39, rating_count |-> 12,
         url |-> <<"h","t","t","p","s",":","/","/","w","w","w",".","a","m","a","z","o","n",".","i","n","/","s","?","k","=","p","c">>, specs |-> <<>>]

\* What one lookup under asyncio.wait_for can end in (main.py:1059-1067)
LookupOutcomes(name, site) ==
    {SlotException, SlotNone}
    \cup {[kind |-> "result", data |-> LookupData(k, name, site)] : k \in LookupKinds}

IsDigit(c) == c \in {"0", "1", "2", "3", "4", "5", "6", "7", "8", "9"}
DigitVal(c) == CHOOSE d \in 0..9 : DigitChars[d + 1] = c

\* int(digits), 0 for the empty string
RECURSIVE DigitsValue(_)
DigitsValue(s) ==
    IF Len(s) = 0 THEN 0
    ELSE 10 * DigitsValue(SubSeq(s, 1, Len(s) - 1)) + DigitVal(s[Len(s)])

\* main.py:1152-1161: re.sub(r'[^\d.]', '', price_str), then
\* int(float(price_clean) * 100), and 0 when float() raises.  Fractions are
\* cut after the second digit; binary rounding of the product is left out.
PriceRaw(price_str) ==
    LET price_clean == SelectSeq(price_str, LAMBDA c : IsDigit(c) \/ c = ".")
        dots == {i \in 1..Len(price_clean) : price_clean[i] = "."}
    IN  IF Len(price_clean) = 0 THEN 0
        ELSE IF Cardinality(dots) > 1 \/ Len(price_clean) = Cardinality(dots) THEN 0
        ELSE IF dots = {} THEN 100 * DigitsValue(price_clean)
        ELSE LET d == CHOOSE i \in dots : TRUE
                 whole == SubSeq(price_clean, 1, d - 1)
                 frac == Take(SubSeq(price_clean, d + 1, Len(price_clean)) \o <<"0","0">>, 2)
             IN 100 * DigitsValue(whole) + DigitsValue(frac)

(***************************************************************************)
(* Regular expressions of the code, matched on character sequences.  A    *)
(* pattern is a set of alternatives, an alternative a sequence of items;  *)
(* an item is a choice of literals (re.IGNORECASE: given in lower case)   *)
(* or a repeated character class.  The code's patterns have one match end *)
(* per start or are greedy to the longest one, so the match at a start is *)
(* the longest one.                                                        *)
(***************************************************************************)
Lit(alts) == [kind |-> "lit", alts |-> alts, class |-> "", min |-> 1,
              bounded |-> TRUE, max |-> 1]
Opt(alts) == [kind |-> "lit", alts |-> alts, class |-> "", min |-> 0,
              bounded |-> TRUE, max |-> 1]
Plus(class) == [kind |-> "rep", alts |-> {}, class |-> class, min |-> 1,
                bounded |-> FALSE, max |-> 0]
Star(class) == [kind |-> "rep", alts |-> {}, class |-> class, min |-> 0,
                bounded |-> FALSE, max |-> 0]
Rep(class, lo, hi) == [kind |-> "rep", alts |-> {}, class |-> class, min |-> lo,
                       bounded |-> TRUE, max |-> hi]

IsLetter(c) == \E i \in 1..26 : UpperAlpha[i] = c \/ LowerAlpha[i] = c

\* \d, \s, \w and [-\w]
InClass(c, class) ==
    IF class = "d" THEN IsDigit(c)
    ELSE IF class = "s" THEN c = " "
    ELSE IF class = "w" THEN IsLetter(c) \/ IsDigit(c) \/ c = "_"
    ELSE IsLetter(c) \/ IsDigit(c) \/ c = "_" \/ c = "-"

\* positions after an item matched from position i
ItemEnds(it, s, i) ==
    IF it.kind = "lit"
    THEN {i + Len(a) : a \in {b \in it.alts :
                                /\ i + Len(b) - 1 <= Len(s)
                                /\ Lower(SubSeq(s, i, i + Len(b) - 1)) = b}}
         \cup (IF it.min = 0 THEN {i} ELSE {})
    ELSE {j \in (i + it.min)..(Len(s) + 1) :
            /\ it.bounded => j - i <= it.max
            /\ \A k \in i..(j - 1) : InClass(s[k], it.class)}

RECURSIVE SeqEnds(_, _, _)
SeqEnds(items, s, starts) ==
    IF Len(items) = 0 \/ starts = {} THEN starts
    ELSE SeqEnds(Tail(items), s, UNION {ItemEnds(Head(items), s, i) : i \in starts})

PatternEnds(pat, s, i) == UNION {SeqEnds(alt, s, {i}) : alt \in pat}

SetMax(S) == CHOOSE m \in S : \A k \in S : k <= m
SetMin(S) == CHOOSE m \in S : \A k \in S : m <= k

\* re.findall(pattern, s, re.IGNORECASE) for a pattern that is one group
RECURSIVE FindAll(_, _, _)
FindAll(pat, s, i) ==
    IF i > Len(s) THEN <<>>
    ELSE LET ends == PatternEnds(pat, s, i) \ {i} IN
         IF ends = {} THEN FindAll(pat, s, i + 1)
         ELSE <<SubSeq(s, i, SetMax(ends) - 1)>> \o FindAll(pat, s, SetMax(ends))

\* str.strip()
Strip(s) ==
    LET nb == {i \in 1..Len(s) : s[i] # " "} IN
    IF nb = {} THEN <<>> ELSE SubSeq(s, SetMin(nb), SetMax(nb))

\* s.split()[0] if s.split() else "Unknown"
FirstWord(s) ==
    LET nb == {i \in 1..Len(s) : s[i] # " "} IN
    IF nb = {} THEN <<"U","n","k","n","o","w","n">>
    ELSE LET a == SetMin(nb)
             sp == {j \in a..Len(s) : s[j] = " "}
         IN SubSeq(s, a, IF sp = {} THEN Len(s) ELSE SetMin(sp) - 1)

\* spec_patterns (main.py:398-404; the first four also at 1120-1125)
PatMemory == {<<Plus("d"), Lit({<<"g","b">>, <<"t","b">>}), Plus("s"),
                Lit({<<"r","a","m">>, <<"s","t","o","r","a","g","e">>, <<"s","s","d">>, <<"h","d","d">>})>>}
PatProcessor == {<<Lit({<<"c","o","r","e">>}), Plus("s"), Lit({<<"i">>}), Plus("d"), Plus("w-")>>,
                 <<Lit({<<"r","y","z","e","n">>}), Plus("s"), Plus("d")>>}
PatQuoteSize == {<<Plus("d"), Lit({<<"\"">>}), Star("s"),
                   Opt({<<"f","h","d">>, <<"h","d">>, <<"d","i","s","p","l","a","y">>})>>,
                 <<Plus("d"), Opt({<<".">>}), Plus("d"), Lit({<<"\"">>}), Star("s"),
                   Opt({<<"f","h","d">>, <<"h","d">>, <<"d","i","s","p","l","a","y">>})>>}
PatBattery == {<<Plus("d"), Lit({<<"m","a","h">>, <<"w","h","r">>}), Plus("s"), Lit({<<"b","a","t","t","e","r","y">>})>>}
PatLength == {<<Plus("d"), Star("s"), Lit({<<"i","n","c","h">>, <<"c","m">>})>>,
              <<Plus("d"), Opt({<<".">>}), Plus("d"), Star("s"), Lit({<<"i","n","c","h">>, <<"c","m">>})>>}
BuildPatterns == <<PatMemory, PatProcessor, PatQuoteSize, PatBattery>>
EnhancePatterns == <<PatMemory, PatProcessor, PatQuoteSize, PatBattery, PatLength>>

\* for match in matches: if match and match not in specs: append(match.strip())
RECURSIVE AddMatches(_, _)
AddMatches(specs, matches) ==
    IF Len(matches) = 0 THEN specs
    ELSE AddMatches(IF \E k \in 1..Len(specs) : specs[k] = Head(matches)
                    THEN specs
                    ELSE Append(specs, Strip(Head(matches))),
                    Tail(matches))

\* for pattern in spec_patterns: ... (main.py:406-410, 1127-1131)
RECURSIVE RegexSpecs(_, _, _)
RegexSpecs(patterns, text, specs) ==
    IF Len(patterns) = 0 THEN specs
    ELSE RegexSpecs(Tail(patterns), text,
                    AddMatches(specs, FindAll(Head(patterns), text, 1)))

(***************************************************************************)
(* Enrichment (main.py:296-415).                                           *)
(***************************************************************************)
\* What the provider does on the one call of enhance_product_with_gemini:
\* generate_content raises; it answers with text that holds no JSON object;
\* it answers with the JSON asked for.
EnrichOutcomes == {"raises", "no_json", "ok"}

\* specifications and why_pick of the provider's JSON answer
ProviderSpecs == <<<<"1","6","G","B"," ","R","A","M">>, <<"5","1","2","G","B"," ","S","S","D">>, <<"1","5",".","6"," ","i","n","c","h"," ","F","H","D">>>>
ProviderWhyPick == <<"F","a","s","t"," ","a","n","d"," ","l","i","g","h","t">>

NoEnrich == [kind |-> "pending", specifications |-> <<>>, why_pick |-> <<>>]
EnrichException == [kind |-> "exception", specifications |-> <<>>, why_pick |-> <<>>]

\* main.py:387-415: the except branch.  `import re` (line 368) is a
\* statement of the try body, which makes re a local name of the function:
\* the branch can use it only when the try body got as far as line 368,
\* else re.findall raises UnboundLocalError out of the function.
EnhanceFallback(product_title, cat, re_bound) ==
    IF ~re_bound THEN EnrichException
    ELSE LET fallback_specs == RegexSpecs(EnhancePatterns, product_title, <<>>) IN
         [kind |-> "value",
          specifications |-> IF Len(fallback_specs) > 0 THEN Take(fallback_specs, 5)
                             ELSE <<cat \o <<" ","p","r","o","d","u","c","t">>>>,
          why_pick |-> <<"Q","u","a","l","i","t","y"," ">> \o cat \o <<" ","a","l","t","e","r","n","a","t","i","v","e"," ","t","o"," ","c","o","n","s","i","d","e","r">>]

\* main.py:296-415
enhance_product_with_gemini(product_title, cat, outcome) ==
    IF outcome = "raises" THEN EnhanceFallback(product_title, cat, FALSE)
    ELSE IF outcome = "no_json" THEN EnhanceFallback(product_title, cat, TRUE)
    ELSE [kind |-> "value", specifications |-> Take(ProviderSpecs, 6),
          why_pick |-> ProviderWhyPick]

\* main.py:1093-1098: the title handed to the enrichment call of a slot
EnrichTitle(product_name, search_result) ==
    IF search_result.kind # "result" THEN product_name
    ELSE IF search_result.data.has_title THEN search_result.data.title
    ELSE product_name

(***************************************************************************)
(* Candidate building (main.py:1105-1246).                                 *)
(***************************************************************************)
SearchUrl(product_name, site) ==
    IF site = "flipkart"
    THEN <<"h","t","t","p","s",":","/","/","w","w","w",".","f","l","i","p","k","a","r","t",".","c","o","m","/","s","e","a","r","c","h","?","q","=">> \o ReplaceSpaces(product_name)
    ELSE <<"h","t","t","p","s",":","/","/","w","w","w",".","a","m","a","z","o","n",".","i","n","/","s","?","k","=">> \o ReplaceSpaces(product_name)

SiteText(site) ==
    IF site = "amazon" THEN <<"a","m","a","z","o","n">>
    ELSE IF site = "flipkart" THEN <<"f","l","i","p","k","a","r","t">>
    ELSE <<"u","n","k","n","o","w","n">>

\* main.py:1108-1149: the lookup raised or timed out
ProductFromException(idx, product_name, site, cat) ==
    [id |-> IntStr(idx), brand |-> FirstWord(product_name), model |-> product_name,
     title |-> product_name, image_url |-> <<>>, price_estimate |-> <<"₹","0">>,
     price_raw |-> 0, rating_estimate |-> NoneInt, rating_count_estimate |-> NoneInt,
     specs |-> RegexSpecs(BuildPatterns, product_name, <<>>), connectivity |-> <<>>,
     why_pick |-> <<"S","i","m","i","l","a","r"," ">> \o cat \o <<" ","a","l","t","e","r","n","a","t","i","v","e">>,
     tradeoffs |-> <<"L","i","m","i","t","e","d"," ","d","a","t","a"," ","-"," ","s","e","a","r","c","h"," ","t","o"," ","v","i","e","w"," ","d","e","t","a","i","l","s">>,
     source_url |-> SearchUrl(product_name, site), source_site |-> site]

\* main.py:1150-1210: the lookup returned a result
ProductFromResult(idx, product_name, data, gemini_result, site, cat) ==
    LET price_str == IF Len(data.price) = 0 THEN <<"₹","0">> ELSE data.price
        price_raw == PriceRaw(data.price)
        title == IF data.has_title THEN data.title ELSE product_name
        product_url == data.url
        is_direct_link ==
            /\ Len(product_url) > 0
            /\ Contains(product_url, <<"/","d","p","/">>) \/ Contains(product_url, <<"/","p","/">>)
            /\ ~Contains(product_url, <<"/","s","?","k","=">>)
    IN
    [id |-> IntStr(idx), brand |-> FirstWord(title), model |-> product_name,
     title |-> title, image_url |-> data.image_url, price_estimate |-> price_str,
     price_raw |-> price_raw, rating_estimate |-> data.rating,
     rating_count_estimate |-> data.rating_count,
     specs |-> IF gemini_result.kind = "exception" THEN Take(data.specs, 8)
               ELSE gemini_result.specifications,
     connectivity |-> <<>>,
     why_pick |-> IF gemini_result.kind = "exception"
                  THEN <<"F","o","u","n","d"," ","v","i","a"," ","s","e","a","r","c","h",":"," ">> \o product_name
                  ELSE gemini_result.why_pick,
     tradeoffs |-> <<>>,
     source_url |-> IF is_direct_link THEN product_url
                    ELSE <<"h","t","t","p","s",":","/","/","w","w","w",".">> \o SiteText(site) \o <<".","i","n","/","s","?","k","=">>
                         \o ReplaceSpaces(product_name),
     source_site |-> site]

\* main.py:1211-1246: the lookup returned None
ProductFromNone(idx, product_name, gemini_result, site, cat) ==
    [id |-> IntStr(idx), brand |-> FirstWord(product_name), model |-> product_name,
     title |-> product_name, image_url |-> <<>>, price_estimate |-> <<"₹","0">>,
     price_raw |-> 0, rating_estimate |-> NoneInt, rating_count_estimate |-> NoneInt,
     specs |-> IF gemini_result.kind = "exception" THEN <<>>
               ELSE gemini_result.specifications,
     connectivity |-> <<>>,
     why_pick |-> IF gemini_result.kind = "exception"
                  THEN <<"S","i","m","i","l","a","r"," ">> \o cat \o <<" ","a","l","t","e","r","n","a","t","i","v","e">>
                  ELSE gemini_result.why_pick,
     tradeoffs |-> <<"L","i","m","i","t","e","d"," ","d","a","t","a"," ","a","v","a","i","l","a","b","l","e"," ","-"," ","v","e","r","i","f","y"," ","s","p","e","c","s"," ","o","n"," ","p","r","o","d","u","c","t"," ","p","a","g","e">>,
     source_url |-> SearchUrl(product_name, site), source_site |-> site]

\* main.py:1107-1246: the arguments Product(...) is called with for slot idx
BuildProduct(idx, product_name, search_result, gemini_result, site, cat) ==
    IF search_result.kind = "exception"
    THEN ProductFromException(idx, product_name, site, cat)
    ELSE IF search_result.kind = "result"
    THEN ProductFromResult(idx, product_name, search_result.data, gemini_result, site, cat)
    ELSE ProductFromNone(idx, product_name, gemini_result, site, cat)

\* main.py:144-160: pydantic's validation of Product(...); the other fields
\* get values of their declared type from BuildProduct
ProductSites == {"amazon", "flipkart", "other"}
ProductValid(p) == p.source_site \in ProductSites

(***************************************************************************)
(* Quality filter (main.py:1250-1303).                                     *)
(***************************************************************************)
HasImage(alt) == Len(alt.image_url) > 0
HasPrice(alt) == alt.price_raw > 0

\* main.py:1255-1280
QualityScore(alt) ==
    (IF alt.price_raw > 0 THEN 1 ELSE 0)
    + (IF ~Contains(Lower(alt.title), <<"g","e","n","e","r","i","c">>) THEN 1 ELSE 0)
    + (IF ~Contains(alt.source_url, <<"/","s","?","k","=">>) /\ ~Contains(alt.source_url, <<"/","s","e","a","r","c","h","?">>)
       THEN 1 ELSE 0)
    + (IF Len(alt.image_url) > 0 THEN 1 ELSE 0)

\* A filter that asks for a score of 3.
ShouldKeepStrict(alt) ==
    IF HasImage(alt) /\ HasPrice(alt) THEN TRUE
    ELSE IF (HasImage(alt) \/ HasPrice(alt)) /\ QualityScore(alt) >= 3 THEN TRUE
    ELSE FALSE

\* main.py:1284-1295
ShouldKeep(alt) ==
    IF HasImage(alt) /\ HasPrice(alt) THEN TRUE
    ELSE IF (HasImage(alt) \/ HasPrice(alt)) /\ QualityScore(alt) >= 2 THEN TRUE
    ELSE FALSE

\* main.py:1253-1303: score and verdict per built candidate
FilterTrace(alts) ==
    [i \in 1..Len(alts) |->
        [quality_score |-> QualityScore(alts[i]), should_keep |-> ShouldKeep(alts[i])]]

\* Survivors handed on last slot first.
ValidAlternativesReversed(alts) ==
    LET v == SelectSeq(alts, ShouldKeep) IN [k \in 1..Len(v) |-> v[Len(v) + 1 - k]]

\* valid_alternatives
ValidAlternatives(alts) == SelectSeq(alts, ShouldKeep)

(***************************************************************************)
(* Response (main.py:1305-1378).                                           *)
(***************************************************************************)
NoResponse ==
    [status |-> "none", code |-> 0, detail |-> <<>>, source |-> "",
     alternatives |-> <<>>, warnings |-> <<>>]

\* main.py:1308-1313
ZeroSurvivorMessage(n_valid, filtered_count) ==
    <<"C","o","u","l","d"," ","n","o","t"," ","f","i","n","d"," ","e","n","o","u","g","h"," ","v","a","l","i","d"," ","p","r","o","d","u","c","t"," ","a","l","t","e","r","n","a","t","i","v","e","s","."," ">>
    \o <<"F","o","u","n","d"," ">> \o IntStr(n_valid) \o <<" ","v","a","l","i","d"," ","p","r","o","d","u","c","t","s",","," ","f","i","l","t","e","r","e","d"," ","o","u","t"," ">>
    \o IntStr(filtered_count) \o <<"."," ">>
    \o <<"N","e","e","d"," ","a","t"," ","l","e","a","s","t"," ","1"," ","p","r","o","d","u","c","t","."," ">>
    \o <<"T","h","i","s"," ","m","a","y"," ","b","e"," ","d","u","e"," ","t","o"," ","S","c","r","a","p","e","r","A","P","I"," ","l","i","m","i","t","s",","," ","t","i","m","e","o","u","t","s",","," ","o","r"," ","p","o","o","r"," ","s","e","a","r","c","h"," ","r","e","s","u","l","t","s",".">>

\* The head of str(ValidationError) that pydantic raises for a source_site
\* outside the Literal (line breaks written as blanks).
ProductValidationMessage == <<"1"," ","v","a","l","i","d","a","t","i","o","n"," ","e","r","r","o","r"," ","f","o","r"," ","P","r","o","d","u","c","t"," ","s","o","u","r","c","e","_","s","i","t","e">>

\* Longest piece of the error message the detail carries (main.py:1377).
DetailLen == 200

\* main.py:1357-1378: the outer handler
BackendError(error_msg) ==
    LET low == Lower(error_msg)
        is_quota == Contains(low, <<"q","u","o","t","a">>) \/ Contains(error_msg, <<"4","2","9">>)
                    \/ Contains(low, <<"r","a","t","e"," ","l","i","m","i","t">>)
    IN [NoResponse EXCEPT
          !.status = "error", !.code = 503,
          !.detail = IF is_quota
                     THEN <<"G","e","m","i","n","i"," ","A","P","I"," ","q","u","o","t","a"," ","e","x","c","e","e","d","e","d","."," ","T","h","e"," ","s","y","s","t","e","m"," ","a","t","t","e","m","p","t","e","d"," ","t","o"," ","u","s","e"," ","f","a","l","l","b","a","c","k"," ","p","r","o","d","u","c","t","s","."," ","P","l","e","a","s","e"," ","w","a","i","t"," ","2","4"," ","h","o","u","r","s"," ","o","r"," ","e","n","s","u","r","e"," ","b","i","l","l","i","n","g"," ","i","s"," ","e","n","a","b","l","e","d"," ","f","o","r"," ","y","o","u","r"," ","A","P","I"," ","k","e","y",".">>
                     ELSE <<"B","a","c","k","e","n","d"," ","e","r","r","o","r",":"," ">> \o Take(error_msg, DetailLen)
                          \o <<"."," ","P","l","e","a","s","e"," ","c","h","e","c","k"," ","l","o","g","s"," ","f","o","r"," ","d","e","t","a","i","l","s",".">>]

\* A variant that reports too few alternatives up to and including three.
WarningsUpToThree(n_valid, filtered_count) ==
    (IF n_valid <= 3 THEN <<<<"O","n","l","y"," ">> \o IntStr(n_valid) \o <<" ","a","l","t","e","r","n","a","t","i","v","e","s"," ","f","o","u","n","d">>>>
     ELSE <<>>)
    \o (IF filtered_count > 0
        THEN <<<<"F","i","l","t","e","r","e","d"," ","o","u","t"," ">> \o IntStr(filtered_count) \o <<" ","l","o","w","-","q","u","a","l","i","t","y"," ","r","e","s","u","l","t","s">>>>
        ELSE <<>>)

\* main.py:1315-1321
Warnings(n_valid, filtered_count) ==
    (IF n_valid < 3 THEN <<<<"O","n","l","y"," ">> \o IntStr(n_valid) \o <<" ","a","l","t","e","r","n","a","t","i","v","e","s"," ","f","o","u","n","d">>>>
     ELSE <<>>)
    \o (IF filtered_count > 0
        THEN <<<<"F","i","l","t","e","r","e","d"," ","o","u","t"," ">> \o IntStr(filtered_count) \o <<" ","l","o","w","-","q","u","a","l","i","t","y"," ","r","e","s","u","l","t","s">>>>
        ELSE <<>>)

\* main.py:1305-1338: what the request returns or raises after the filter
Respond(alts, site) ==
    LET valid == ValidAlternatives(alts)
        filtered_count == Len(alts) - Len(valid)
    IN IF Len(valid) < 1
       THEN BackendError(ZeroSurvivorMessage(Len(valid), filtered_count))
       ELSE [NoResponse EXCEPT !.status = "ok", !.code = 200, !.source = site,
                               !.alternatives = valid,
                               !.warnings = Warnings(Len(valid), filtered_count)]

(***************************************************************************)
(* One request from the search stage on: actions.                          *)
(***************************************************************************)
\* slots whose lookup has completed
Completed == {i \in 1..Len(lookup_done) : lookup_done[i] # "pending"}

\* the value a finished lookup leaves
OutcomeOf(tag, name, site) ==
    IF tag = "exception" THEN SlotException
    ELSE IF tag = "none" THEN SlotNone
    ELSE [kind |-> "result", data |-> LookupData(tag, name, site)]

LookupTags == {"exception", "none"} \cup LookupKinds

\* A gather that stores results in the order the lookups complete.
GatherStoreByCompletion(results, slot, done_count, value) ==
    [results EXCEPT ![done_count + 1] = value]

\* asyncio.gather(*search_tasks, return_exceptions=True), main.py:1067: the
\* result of the task of a slot goes to that slot, an exception as a value
GatherStore(results, slot, done_count, value) ==
    [results EXCEPT ![slot] = value]

\* A gather that returns with the first lookup that ends.
LookupCompleteFirstOnly(i) ==
    /\ pc = "search"
    /\ i \in 1..Len(product_names)
    /\ i \notin Completed
    /\ \E tag \in LookupTags :
         /\ search_results' = GatherStore(search_results, i, Cardinality(Completed),
                                         OutcomeOf(tag, product_names[i], source_site))
         /\ lookup_done' = [lookup_done EXCEPT ![i] = tag]
    /\ pc' = "enrich"
    /\ UNCHANGED <<source_site, category, product_names, gemini_results, alternatives,
                   filter_trace, response, clVars, fnVars, genVars>>

\* The lookup of slot i ends: it returns, raises, or wait_for times it out
\* (main.py:1059-1067).  With the last one gather returns and the enrichment
\* coroutines are created (1088-1101).
LookupComplete(i) ==
    /\ pc = "search"
    /\ i \in 1..Len(product_names)
    /\ i \notin Completed
    /\ \E tag \in LookupTags :
         /\ search_results' = GatherStore(search_results, i, Cardinality(Completed),
                                         OutcomeOf(tag, product_names[i], source_site))
         /\ lookup_done' = [lookup_done EXCEPT ![i] = tag]
    /\ pc' = IF Cardinality(Completed) + 1 = Len(product_names) THEN "enrich" ELSE "search"
    /\ UNCHANGED <<source_site, category, product_names, gemini_results, alternatives,
                   filter_trace, response, clVars, fnVars, genVars>>

\* The enrichment coroutine of the next slot runs; it has no suspension
\* point, so the coroutines run one after the other in slot order
\* (main.py:1092-1101, 296-415).
EnrichCall ==
    /\ pc = "enrich"
    /\ LET i == Len(gemini_results) + 1 IN
       /\ \E outcome \in EnrichOutcomes :
            gemini_results' = Append(gemini_results,
                enhance_product_with_gemini(
                    EnrichTitle(product_names[i], search_results[i]), category, outcome))
       /\ pc' = IF i = Len(product_names) THEN "build" ELSE "enrich"
    /\ UNCHANGED <<source_site, category, product_names, search_results,
                   lookup_done, alternatives, filter_trace, response,
                   clVars, fnVars, genVars>>

\* candidates in slot order
BuiltProducts ==
    [i \in 1..Len(product_names) |->
        BuildProduct(i, product_names[i], search_results[i], gemini_results[i],
                     source_site, category)]

\* main.py:1105-1378: candidates are built in slot order, Product(...)
\* raising at the first one that does not validate; then filter and response
BuildFilterRespond ==
    /\ pc = "build"
    /\ LET built == BuiltProducts
           bad == {i \in 1..Len(built) : ~ProductValid(built[i])}
       IN IF bad # {}
          THEN /\ alternatives' = SubSeq(built, 1, SetMin(bad) - 1)
               /\ filter_trace' = <<>>
               /\ response' = BackendError(ProductValidationMessage)
          ELSE /\ alternatives' = built
               /\ filter_trace' = FilterTrace(built)
               /\ response' = Respond(built, source_site)
    /\ pc' = "done"
    /\ UNCHANGED <<source_site, category, product_names, search_results,
                   lookup_done, gemini_results, clVars, fnVars, genVars>>

(***************************************************************************)
(* RDM score calculator (rdm_calculator.py).  Scores are kept in           *)
(* hundredths of a point, prices in paise, ratings in tenths of a star,    *)
(* display sizes in hundredths of an inch; a quotient is cut after the     *)
(* second decimal where the code has a float.                              *)
(***************************************************************************)
\* floor(a * 10^k / b) for a >= 0, b > 0, digit by digit
RECURSIVE LongDiv(_, _, _)
LongDiv(a, b, k) ==
    IF k = 0 THEN a \div b
    ELSE (a \div b) * (10 ^ k) + LongDiv((a % b) * 10, b, k - 1)

\* rdm_calculator.py:17-24
_safe_range(values, default_min, default_max, one) ==
    IF values = {} THEN <<default_min, default_max>>
    ELSE IF SetMax(values) = SetMin(values) THEN <<SetMin(values), SetMin(values) + one>>
    ELSE <<SetMin(values), SetMax(values)>>

\* rdm_calculator.py:27-32, in hundredths of a point
_normalize(value, vmin, vmax, default) ==
    IF value = NoneInt THEN default
    ELSE IF vmax = vmin THEN default
    ELSE IF value <= vmin THEN 0
    ELSE IF value >= vmax THEN 10000
    ELSE LongDiv(value - vmin, vmax - vmin, 4)

\* the group of the leftmost match of group-then-rest: first and last
\* position, first = 0 without a match
GroupEndsAt(groupPat, restPat, s, i) ==
    {g \in PatternEnds(groupPat, s, i) \ {i} : PatternEnds(restPat, s, g) # {}}
GroupSearch(groupPat, restPat, s) ==
    LET starts == {i \in 1..Len(s) : GroupEndsAt(groupPat, restPat, s, i) # {}} IN
    IF starts = {} THEN [first |-> 0, last |-> 0]
    ELSE [first |-> SetMin(starts),
          last |-> SetMax(GroupEndsAt(groupPat, restPat, s, SetMin(starts))) - 1]
GroupText(groupPat, restPat, s) ==
    LET m == GroupSearch(groupPat, restPat, s) IN SubSeq(s, m.first, m.last)
HasMatch(groupPat, restPat, s) == GroupSearch(groupPat, restPat, s).first # 0

\* rdm_calculator.py:43-50: int(m.group(1)) of the first match, None without
_extract_int(groupPat, restPat, text) ==
    IF HasMatch(groupPat, restPat, text)
    THEN DigitsValue(GroupText(groupPat, restPat, text))
    ELSE NoneInt

\* a pattern that is its group
Whole == {<<>>}
\* processor_patterns, rdm_calculator.py:93-101
ProcessorPatterns ==
    <<{<<Lit({<<"s","n","a","p","d","r","a","g","o","n">>}), Plus("s"), Plus("d"), Star("s")>>,
       <<Lit({<<"s","n","a","p","d","r","a","g","o","n">>}), Plus("s"), Plus("d"), Star("s"), Lit({<<"g","e","n">>}),
         Star("s"), Plus("d")>>},
      {<<Lit({<<"m","e","d","i","a","t","e","k">>}), Plus("s"), Lit({<<"d","i","m","e","n","s","i","t","y">>}), Star("s"), Plus("d")>>},
      {<<Lit({<<"m","e","d","i","a","t","e","k">>}), Plus("s"), Plus("w"), Plus("d")>>},
      {<<Lit({<<"a","p","p","l","e">>}), Plus("s"), Lit({<<"a">>, <<"m">>}), Plus("d")>>},
      {<<Lit({<<"i","n","t","e","l">>}), Plus("s"), Lit({<<"c","o","r","e">>}), Plus("s"), Lit({<<"i">>}),
         Plus("d")>>},
      {<<Lit({<<"a","m","d">>}), Plus("s"), Lit({<<"r","y","z","e","n">>}), Plus("s"), Plus("d")>>},
      {<<Lit({<<"e","x","y","n","o","s">>}), Star("s"), Plus("d")>>}>>

\* f"{title} {' '.join(specs)}".lower()
SpecText(title, specs) == Lower(title \o <<" ">> \o JoinWords(specs))

\* float(m.group(1)) in hundredths
DecimalCenti(txt) ==
    LET dots == {i \in 1..Len(txt) : txt[i] = "."} IN
    IF dots = {} THEN 100 * DigitsValue(txt)
    ELSE LET d == SetMin(dots) IN
         100 * DigitsValue(SubSeq(txt, 1, d - 1))
         + DigitsValue(Take(SubSeq(txt, d + 1, Len(txt)) \o <<"0","0">>, 2))

\* rdm_calculator.py:91-105: the first pattern that matches gives the name
RECURSIVE FirstProcessor(_, _)
FirstProcessor(patterns, text) ==
    IF Len(patterns) = 0 THEN <<>>
    ELSE IF HasMatch(Head(patterns), Whole, text)
    THEN GroupText(Head(patterns), Whole, text)
    ELSE FirstProcessor(Tail(patterns), text)

PhoneCategories == {<<"s","m","a","r","t","p","h","o","n","e">>, <<"p","h","o","n","e">>}
ScreenCategories == {<<"t","v">>, <<"m","o","n","i","t","o","r">>, <<"d","i","s","p","l","a","y">>}
ApplianceCategories == {<<"a","c">>, <<"a","i","r"," ","c","o","n","d","i","t","i","o","n","e","r">>, <<"f","r","i","d","g","e">>, <<"r","e","f","r","i","g","e","r","a","t","o","r">>,
                        <<"w","a","s","h","i","n","g"," ","m","a","c","h","i","n","e">>, <<"a","p","p","l","i","a","n","c","e">>}

\* rdm_calculator.py:142-173; p = processor.upper(), tested here in lower case
calculate_performance_score(processor, cat) ==
    IF Len(processor) = 0 THEN 50
    ELSE LET p == Lower(processor) IN
    IF cat \in PhoneCategories THEN
        IF Contains(p, <<"s","n","a","p","d","r","a","g","o","n"," ","8">>) \/ Contains(p, <<"a","p","p","l","e"," ","a","1">>)
           \/ Contains(p, <<"d","i","m","e","n","s","i","t","y"," ","9">>) THEN 95
        ELSE IF Contains(p, <<"s","n","a","p","d","r","a","g","o","n"," ","7">>) \/ Contains(p, <<"d","i","m","e","n","s","i","t","y"," ","8">>) THEN 85
        ELSE IF Contains(p, <<"s","n","a","p","d","r","a","g","o","n"," ","6">>) \/ Contains(p, <<"d","i","m","e","n","s","i","t","y"," ","7">>) THEN 75
        ELSE IF Contains(p, <<"s","n","a","p","d","r","a","g","o","n"," ","4">>) \/ Contains(p, <<"d","i","m","e","n","s","i","t","y"," ","6">>) THEN 65
        ELSE 60
    ELSE IF cat = <<"l","a","p","t","o","p">> THEN
        IF Contains(p, <<"i","9">>) \/ Contains(p, <<"r","y","z","e","n"," ","9">>) THEN 95
        ELSE IF Contains(p, <<"i","7">>) \/ Contains(p, <<"r","y","z","e","n"," ","7">>) THEN 85
        ELSE IF Contains(p, <<"i","5">>) \/ Contains(p, <<"r","y","z","e","n"," ","5">>) THEN 75
        ELSE IF Contains(p, <<"i","3">>) \/ Contains(p, <<"r","y","z","e","n"," ","3">>) THEN 65
        ELSE 60
    ELSE 60

\* rdm_calculator.py:37-139
extract_detailed_specs(title, specs, cat) ==
    LET text == SpecText(title, specs)
        Digits == {<<Plus("d")>>}
        \* r'(\d+)\s*gb\s*(?:ram|ddr)'
        RestRam == {<<Star("s"), Lit({<<"g","b">>}), Star("s"), Lit({<<"r","a","m">>, <<"d","d","r">>})>>}
        \* r'(\d+)\s*(tb|gb)\s*(?:ssd|hdd|storage|emmc)?'
        RestStorage == {<<Star("s"), Lit({<<"t","b">>, <<"g","b">>})>>}
        RestStorageTb == {<<Star("s"), Lit({<<"t","b">>})>>}
        \* r'(\d{3,5})\s*mAh' and r'(\d{2,3})\s*whr'
        RestMah == {<<Star("s"), Lit({<<"m","a","h">>})>>}
        RestWhr == {<<Star("s"), Lit({<<"w","h","r">>})>>}
        \* r'(\d{1,2}(?:\.\d{1,2})?)\s*(?:\"|inch|in)'
        GroupSize == {<<Rep("d", 1, 2)>>, <<Rep("d", 1, 2), Lit({<<".">>}), Rep("d", 1, 2)>>}
        RestSize == {<<Star("s"), Lit({<<"\"">>, <<"i","n","c","h">>, <<"i","n">>})>>}
        \* r'(\d+)\s*(year|yr)' and r'(\d)\s*star'
        RestWarranty == {<<Star("s"), Lit({<<"y","e","a","r">>, <<"y","r">>})>>}
        RestStar == {<<Star("s"), Lit({<<"s","t","a","r">>})>>}
        \* r'fhd|full\s*hd|1080'
        PatFullHd == {<<Lit({<<"f","u","l","l">>}), Star("s"), Lit({<<"h","d">>})>>}
        mah == _extract_int({<<Rep("d", 3, 5)>>}, RestMah, text)
        whr == _extract_int({<<Rep("d", 2, 3)>>}, RestWhr, text)
        processor == FirstProcessor(ProcessorPatterns, text)
    IN
    [ram_gb |-> _extract_int(Digits, RestRam, text),
     storage_gb |->
        IF ~HasMatch(Digits, RestStorage, text) THEN NoneInt
        ELSE LET m == GroupSearch(Digits, RestStorage, text)
                 size == DigitsValue(SubSeq(text, m.first, m.last))
             IN IF PatternEnds(RestStorageTb, text, m.last + 1) # {}
                THEN size * 1024 ELSE size,
     storage_type |->
        IF ~HasMatch(Digits, RestStorage, text) THEN ""
        ELSE IF Contains(text, <<"s","s","d">>) THEN "SSD"
        ELSE IF Contains(text, <<"h","d","d">>) THEN "HDD"
        ELSE "",
     battery_mah |->
        IF mah # NoneInt THEN mah
        ELSE IF whr # NoneInt /\ whr # 0 THEN (whr * 10000) \div 38
        ELSE NoneInt,
     display_size |->
        IF HasMatch(GroupSize, RestSize, text)
        THEN DecimalCenti(GroupText(GroupSize, RestSize, text))
        ELSE NoneInt,
     display_type |->
        IF Contains(text, <<"4","k">>) \/ Contains(text, <<"u","h","d">>) THEN "4K"
        ELSE IF Contains(text, <<"q","h","d">>) \/ Contains(text, <<"2","k">>) THEN "QHD"
        ELSE IF Contains(text, <<"f","h","d">>) \/ HasMatch(PatFullHd, Whole, text)
                \/ Contains(text, <<"1","0","8","0">>) THEN "FHD"
        ELSE IF Contains(text, <<"h","d">>) \/ Contains(text, <<"7","2","0">>) THEN "HD"
        ELSE "",
     processor |-> processor,
     warranty_years |-> _extract_int(Digits, RestWarranty, text),
     energy_star |-> _extract_int({<<Rep("d", 1, 1)>>}, RestStar, text),
     performance_score |-> calculate_performance_score(processor, cat)]

\* rdm_calculator.py:178-202, in hundredths
_ownership_score(warranty_years, energy_star) ==
    LET w_score == IF warranty_years = NoneInt THEN 0
                   ELSE IF warranty_years >= 3 THEN 100
                   ELSE IF warranty_years = 2 THEN 70
                   ELSE IF warranty_years = 1 THEN 40
                   ELSE 20
        e_score == IF energy_star = NoneInt THEN 0 ELSE 20 * energy_star
    IN IF warranty_years # NoneInt /\ energy_star # NoneInt THEN 50 * (w_score + e_score)
       ELSE IF warranty_years # NoneInt THEN 100 * w_score
       ELSE IF energy_star # NoneInt THEN 100 * e_score
       ELSE 4000

DisplayScore(display_type) ==
    IF display_type = "4K" THEN 100
    ELSE IF display_type = "QHD" THEN 80
    ELSE IF display_type = "FHD" THEN 60
    ELSE 50

\* rdm_calculator.py:205-249, in hundredths
_feature_score(product, cat, ranges) ==
    LET perf == IF product.performance_score = 0 THEN 50 ELSE product.performance_score
        ram == _normalize(product.ram_gb, ranges.ram[1], ranges.ram[2], 5000)
        storage == _normalize(product.storage_gb, ranges.storage[1], ranges.storage[2], 5000)
        battery == _normalize(product.battery_mah, ranges.battery[1], ranges.battery[2], 5000)
        size == _normalize(product.display_size, ranges.size[1], ranges.size[2], 5000)
        energy == _normalize(product.energy_star, 1, 5, 5000)
        storage_type_score == IF product.storage_type = "SSD" THEN 100
                              ELSE IF product.storage_type = "HDD" THEN 60 ELSE 50
    IN
    IF cat \in PhoneCategories
    THEN (3000 * perf + 25 * ram + 25 * storage + 20 * battery) \div 100
    ELSE IF cat = <<"l","a","p","t","o","p">>
    THEN (3000 * perf + 25 * ram + 2000 * storage_type_score
          + 1500 * DisplayScore(product.display_type) + 10 * battery) \div 100
    ELSE IF cat \in ScreenCategories
    THEN (5000 * DisplayScore(product.display_type) + 50 * size) \div 100
    ELSE IF cat \in ApplianceCategories THEN energy
    ELSE 100 * perf

\* Natural logarithms in millionths, of the arguments 1 + count that the
\* rating counts of the model give.
LnMicro ==
    [n \in {11, 13, 801, 1201, 3401} |->
        IF n = 11 THEN 2397895
        ELSE IF n = 13 THEN 2564949
        ELSE IF n = 801 THEN 6685861
        ELSE IF n = 1201 THEN 7090910
        ELSE 8131825]

\* rdm_calculator.py:274-275, 283-287, 302-316: the ranges of the group
RdmRanges(enriched, cat) ==
    LET n == Len(enriched)
        Vals(f) == {enriched[i][f] : i \in {k \in 1..n :
                        enriched[k][f] # NoneInt /\ enriched[k][f] # 0}}
        phone == cat \in PhoneCategories
        laptop == cat = <<"l","a","p","t","o","p">>
    IN [price |-> _safe_range(Vals("price_raw"), 100, 200, 100),
        ram |-> IF laptop THEN _safe_range(Vals("ram_gb"), 8, 32, 1)
                ELSE IF phone THEN _safe_range(Vals("ram_gb"), 4, 12, 1)
                ELSE _safe_range(Vals("ram_gb"), 4, 16, 1),
        storage |-> IF laptop THEN _safe_range(Vals("storage_gb"), 256, 2048, 1)
                    ELSE _safe_range(Vals("storage_gb"), 64, 512, 1),
        battery |-> IF laptop THEN _safe_range(Vals("battery_mah"), 3000, 8000, 1)
                    ELSE _safe_range(Vals("battery_mah"), 4000, 6000, 1),
        size |-> IF laptop \/ phone THEN <<NoneInt, NoneInt>>
                 ELSE _safe_range(Vals("display_size"), 600, 5500, 100)]

\* rdm_calculator.py:276-287, 321-324: the rating count a product counts with
ReviewCount(p) ==
    IF p.rating_count_estimate = NoneInt
    THEN IF p.rating_estimate # NoneInt /\ p.rating_estimate > 0 THEN 10 ELSE 0
    ELSE p.rating_count_estimate

\* rdm_calculator.py:268-272: product and extracted details in one record
Enriched(products, cat) ==
    LET Merged(p, d) ==
            [price_raw |-> p.price_raw,
             rating_estimate |-> p.rating_estimate,
             rating_count_estimate |-> p.rating_count_estimate,
             ram_gb |-> d.ram_gb, storage_gb |-> d.storage_gb,
             storage_type |-> d.storage_type, battery_mah |-> d.battery_mah,
             display_size |-> d.display_size, display_type |-> d.display_type,
             warranty_years |-> d.warranty_years, energy_star |-> d.energy_star,
             performance_score |-> d.performance_score]
    IN <<>> \o [i \in 1..Len(products) |->
                Merged(products[i],
                       extract_detailed_specs(products[i].title, products[i].specs, cat))]

\* rdm_calculator.py:319-366: sub-scores and rounded composite of product i
RdmBreakdown(enriched, cat, i) ==
    LET p == enriched[i]
        counts == {k \in 1..Len(enriched) : ReviewCount(enriched[k]) >= 1}
        ReviewMax(cs) == IF cs = {} THEN 0
                         ELSE SetMax({ReviewCount(enriched[k]) : k \in cs})
        rating == IF p.rating_estimate = NoneInt THEN 0 ELSE p.rating_estimate
        PriceScore(lo, hi) ==
            IF hi > lo THEN LongDiv(hi - p.price_raw, hi - lo, 4) ELSE 5000
        ReviewScore(cs, review_max, count) ==
            IF review_max <= 0 \/ Cardinality(cs) < 2 \/ review_max < 50 THEN 5000
            ELSE IF count > 0
            THEN LongDiv(LnMicro[1 + count], LnMicro[1 + review_max], 4)
            ELSE 0
        Scores(ranges, cs) ==
            <<PriceScore(ranges.price[1], ranges.price[2]),
              200 * rating,
              ReviewScore(cs, ReviewMax(cs), ReviewCount(p)),
              _feature_score(p, cat, ranges),
              _ownership_score(p.warranty_years, p.energy_star)>>
        Weighted(s, w) ==
            (w[1] * (s[1] \div 100) + w[2] * (s[2] \div 100) + w[3] * (s[3] \div 100)
             + w[4] * (s[4] \div 100) + w[5] * (s[5] \div 100))
            + (w[1] * (s[1] % 100) + w[2] * (s[2] % 100) + w[3] * (s[3] % 100)
               + w[4] * (s[4] % 100) + w[5] * (s[5] % 100)) \div 100
        Breakdown(s, w) ==
            [price_score |-> s[1], rating_score |-> s[2], review_score |-> s[3],
             feature_score |-> s[4], ownership_score |-> s[5],
             rdm_score |-> (Weighted(s, w) + 5) \div 10]
    IN Breakdown(Scores(RdmRanges(enriched, cat), counts),
                 IF cat \in PhoneCategories \/ cat = <<"l","a","p","t","o","p">>
                 THEN <<20, 25, 20, 25, 10>> ELSE <<25, 25, 20, 20, 10>>)

\* rdm_calculator.py:252-366: rdm_score of each product, in tenths, in the
\* order of the input
RdmScores(products, cat) ==
    LET ScoresOf(enriched) ==
            [i \in 1..Len(products) |-> RdmBreakdown(enriched, cat, i).rdm_score]
    IN ScoresOf(Enriched(products, cat))

PipeIdle ==
    /\ pc = "idle" /\ source_site = "" /\ category = <<>> /\ product_names = <<>>
    /\ search_results = <<>> /\ lookup_done = <<>> /\ gemini_results = <<>>
    /\ alternatives = <<>> /\ filter_trace = <<>> /\ response = NoResponse

RdmIdle ==
    /\ rdm_products = <<>> /\ rdm_category = <<>>
    /\ rdm_output = [called |-> FALSE, scored |-> <<>>]
ParseIdle == llm_text = <<>> /\ llm_data = [state |-> "idle", names |-> <<>>]

(***************************************************************************)
(* Specifications.                                                         *)
(***************************************************************************)
ClIdle == cl_title = <<>> /\ cl_category = <<>>
GenIdle ==
    /\ n_keys = 1 /\ current_key_index = 0 /\ configured_key = 0
    /\ served = 0 /\ last_end_index = 0
    /\ req = [r \in Reqs |-> IdleReq]

\* The cascade is applied to the title (main.py:426-511)
Classify ==
    /\ cl_title # <<>>
    /\ cl_category = <<>>
    /\ cl_category' = DetectCategory(cl_title)
    /\ UNCHANGED <<cl_title, fnVars, genVars, pipeVars>>

ClassifyInit ==
    /\ cl_title \in ClassifierTitles
    /\ cl_category = <<>>
    /\ RdmIdle
    /\ ParseIdle
    /\ GenIdle
    /\ PipeIdle

SpecClassify == ClassifyInit /\ [][Classify]_vars

\* The process after start-up (main.py:89-118, 183): 1 to 3 keys loaded,
\* the first one configured
GenInit ==
    /\ n_keys \in 1..MaxKeys
    /\ current_key_index = 0
    /\ configured_key = 0
    /\ served = 0
    /\ last_end_index = 0
    /\ req = [r \in Reqs |-> IdleReq]
    /\ ClIdle
    /\ RdmIdle
    /\ ParseIdle
    /\ PipeIdle

\* Requests served one at a time.
GenNext ==
    \E r \in {1} :
        \/ StartRequest(r)
        \/ ResolveTitle(r)
        \/ GenAttempt(r)
        \/ WakeUp(r)
        \/ FinishRequest(r)

SpecGen == GenInit /\ [][GenNext]_vars

\* Requests served one at a time, where every provider call ends (it
\* returns or raises) and every asyncio.sleep ends (main.py:569-609).
\* The pass of the loop is written as weak fairness spelled out: GenAttempt
\* is enabled exactly while the request is at the provider call.
SpecGenLive ==
    /\ GenInit /\ [][GenNext]_vars
    /\ WF_vars(WakeUp(1))
    /\ ([]<>(req[1].pc # "attempt") \/ []<><<GenAttempt(1)>>_vars)

\* Two requests in flight on the one event loop.  A request is switched out
\* only where it awaits: the title resolution (main.py:871-931), the backoff
\* sleep (609) and the later stages; between the end of an await and the
\* provider call (557-578) it runs without a suspension point, so no other
\* request takes a step while one is about to call the provider.  The
\* requests come for one URL and one title, and the provider answers with an
\* overload, a quota error, another error or five names.
GenNext2 ==
    \E r \in Reqs :
        /\ \A o \in Reqs \ {r} : req[o].pc # "attempt"
        /\ \/ StartRequest(r) /\ req'[r].url = <<"h","t","t","p","s",":","/","/","w","w","w",".","a","m","a","z","o","n",".","i","n","/","d","p","/","B","0","8","N","5","W","R","W","N","W">>
           \/ ResolveTitle(r) /\ req'[r].title = <<"H","P"," ","L","a","p","t","o","p"," ","1","5">>
           \/ /\ GenAttempt(r)
              /\ LET c == req'[r].calls[Len(req[r].calls) + 1] IN
                 /\ c.kind \in {"overloaded", "quota", "other", "names"}
                 /\ c.kind = "names" => Len(req'[r].product_names) = 5
           \/ WakeUp(r)
           \/ FinishRequest(r)

SpecGen2 == GenInit /\ [][GenNext2]_vars


\* A request at the search stage (main.py:1043-1064): the source tag of its
\* URL, its category and the names to search
PipeInit ==
    /\ pc = "search"
    /\ \E u \in RequestUrls : source_site = extract_source(u)
    /\ category \in PipelineCategories
    /\ \E n \in NameCounts : product_names = Take(PipelineNames, n)
    /\ search_results = [i \in 1..Len(product_names) |-> SlotPending]
    /\ lookup_done = [i \in 1..Len(product_names) |-> "pending"]
    /\ gemini_results = <<>>
    /\ alternatives = <<>>
    /\ filter_trace = <<>>
    /\ response = NoResponse
    /\ ClIdle
    /\ RdmIdle
    /\ ParseIdle
    /\ GenIdle

Next ==
    \/ \E i \in 1..MaxNamesCap : LookupComplete(i)
    \/ EnrichCall
    \/ BuildFilterRespond

Spec == PipeInit /\ [][Next]_vars
\* An insertion that puts a product before the products of the same score.
RECURSIVE InsertByScoreBeforeEqual(_, _)
InsertByScoreBeforeEqual(sorted, x) ==
    IF Len(sorted) = 0 THEN <<x>>
    ELSE IF Head(sorted).rdm_score > x.rdm_score
    THEN <<Head(sorted)>> \o InsertByScoreBeforeEqual(Tail(sorted), x)
    ELSE <<x>> \o sorted

\* rdm_calculator.py:369: list.sort(key=rdm_score, reverse=True) is stable,
\* a product goes behind the products sorted so far that score as much or
\* more
RECURSIVE InsertByScore(_, _)
InsertByScore(sorted, x) ==
    IF Len(sorted) = 0 THEN <<x>>
    ELSE IF Head(sorted).rdm_score >= x.rdm_score
    THEN <<Head(sorted)>> \o InsertByScore(Tail(sorted), x)
    ELSE <<x>> \o sorted

\* rdm_calculator.py:369: the sort, as insertions in input order
RECURSIVE SortByScore(_)
SortByScore(items) ==
    IF Len(items) = 0 THEN <<>>
    ELSE InsertByScore(SortByScore(SubSeq(items, 1, Len(items) - 1)), items[Len(items)])

\* rdm_calculator.py:252-370: the list returned; idx is the place the product
\* had in the input, rdm_score is in tenths and the sub-scores of
\* rdm_breakdown in hundredths of a point
calculate_rdm_scores(products, cat) ==
    LET Scored(i, b) ==
            [idx |-> i, rdm_score |-> b.rdm_score,
             rdm_breakdown |-> [price_score |-> b.price_score,
                                rating_score |-> b.rating_score,
                                review_score |-> b.review_score,
                                feature_score |-> b.feature_score,
                                ownership_score |-> b.ownership_score]]
        Sorted(enriched) ==
            SortByScore(<<>> \o [i \in 1..Len(products) |->
                                    Scored(i, RdmBreakdown(enriched, cat, i))])
    IN Sorted(Enriched(products, cat))

\* Products calculate_rdm_scores is called with: title, specs, price in
\* paise (0 when the price is missing), rating in tenths of a star and
\* number of ratings (None when missing).
RdmCandidates ==
    {[title |-> <<"d","e","l","l"," ","g","3"," ","1","6","G","B"," ","R","A","M">>, specs |-> <<<<"C","o","r","e"," ","i","5","-","1","2","3","5","U">>>>,
      price_raw |-> 4999000, rating_estimate |-> 45, rating_count_estimate |-> 3400],
     [title |-> <<"g","e","n","e","r","i","c"," ","p","c"," ","8","G","B"," ","R","A","M">>, specs |-> <<>>,
      price_raw |-> 2999900, rating_estimate |-> 40, rating_count_estimate |-> 800],
     [title |-> <<"h","p"," ","1","5"," ","2"," ","y","e","a","r"," ","w","a","r","r","a","n","t","y">>, specs |-> <<<<"5","1","2","G","B"," ","S","S","D">>>>,
      price_raw |-> 4999000, rating_estimate |-> 43, rating_count_estimate |-> 1200],
     [title |-> <<"a","c","e","r"," ","a","5"," ","5"," ","s","t","a","r"," ","3"," ","y","e","a","r">>, specs |-> <<>>,
      price_raw |-> 2999900, rating_estimate |-> 43, rating_count_estimate |-> NoneInt],
     [title |-> <<"l","g"," ","9"," ","s","t","a","r">>, specs |-> <<>>,
      price_raw |-> 0, rating_estimate |-> NoneInt, rating_count_estimate |-> NoneInt]}

\* Longest list of products.
MaxProducts == 3

\* calculate_rdm_scores(products, category) is called
Score ==
    /\ ~rdm_output.called
    /\ rdm_category # <<>>
    /\ rdm_output' = [called |-> TRUE,
                      scored |-> calculate_rdm_scores(rdm_products, rdm_category)]
    /\ UNCHANGED <<rdm_products, rdm_category, llm_text, llm_data,
                   clVars, genVars, pipeVars>>

RdmInit ==
    /\ rdm_products \in UNION {[1..n -> RdmCandidates] : n \in 0..MaxProducts}
    /\ rdm_category \in {<<"l","a","p","t","o","p">>, <<"a","c">>}
    /\ rdm_output = [called |-> FALSE, scored |-> <<>>]
    /\ ParseIdle
    /\ ClIdle
    /\ GenIdle
    /\ PipeIdle

SpecRdm == RdmInit /\ [][Score]_vars


(***************************************************************************)
(* The parser of the provider's response text, main.py 687-759.            *)
(* json_loads models json.loads on the part of JSON these texts use:       *)
(* objects, arrays and strings without escapes, separated by blanks. A     *)
(* value is [t, v]: t is "str", "arr" or "obj"; the result is [ok, val].  *)
(* A TLA+ string cannot hold the backquote, so the backquote of a code      *)
(* fence is written ~, a character the texts do not otherwise contain.     *)
(***************************************************************************)
RECURSIVE JsonParse(_, _, _, _)
JsonParse(s, mode, i, acc) ==
    LET n == Len(s)
        At(j) == IF j \in 1..n THEN s[j] ELSE ""
        Ws(j) == SetMin({k \in j..(n + 1) : At(k) # " "})
        Fail == [ok |-> FALSE, pos |-> 0, val |-> <<>>]
        Str(j) ==
            IF At(j) # "\"" THEN Fail
            ELSE LET ends == {k \in (j + 1)..n : s[k] = "\""} IN
                 IF ends = {} THEN Fail
                 ELSE LET e == SetMin(ends) IN
                      [ok |-> TRUE, pos |-> e + 1,
                       val |-> [t |-> "str", v |-> SubSeq(s, j + 1, e - 1)]]
    IN
    IF mode = "value" THEN
        IF At(i) = "\"" THEN Str(i)
        ELSE IF At(i) = "[" THEN
            LET j == Ws(i + 1) IN
            IF At(j) = "]"
            THEN [ok |-> TRUE, pos |-> j + 1, val |-> [t |-> "arr", v |-> <<>>]]
            ELSE JsonParse(s, "items", j, <<>>)
        ELSE IF At(i) = "{" THEN
            LET j == Ws(i + 1) IN
            IF At(j) = "}"
            THEN [ok |-> TRUE, pos |-> j + 1, val |-> [t |-> "obj", v |-> <<>>]]
            ELSE JsonParse(s, "pairs", j, <<>>)
        ELSE Fail
    ELSE IF mode = "items" THEN
        \* the elements of an array from position i on, acc holding the earlier ones
        LET x == JsonParse(s, "value", i, <<>>) IN
        IF ~x.ok THEN Fail
        ELSE LET j == Ws(x.pos)
                 got == Append(acc, x.val) IN
             IF At(j) = "," THEN JsonParse(s, "items", Ws(j + 1), got)
             ELSE IF At(j) = "]"
             THEN [ok |-> TRUE, pos |-> j + 1, val |-> [t |-> "arr", v |-> got]]
             ELSE Fail
    ELSE IF mode = "pairs" THEN
        \* the members of an object from position i on
        LET k == Str(i) IN
        IF ~k.ok THEN Fail
        ELSE LET c == Ws(k.pos) IN
             IF At(c) # ":" THEN Fail
             ELSE LET x == JsonParse(s, "value", Ws(c + 1), <<>>) IN
                  IF ~x.ok THEN Fail
                  ELSE LET j == Ws(x.pos)
                           got == Append(acc, [key |-> k.val.v, val |-> x.val]) IN
                       IF At(j) = "," THEN JsonParse(s, "pairs", Ws(j + 1), got)
                       ELSE IF At(j) = "}"
                       THEN [ok |-> TRUE, pos |-> j + 1,
                             val |-> [t |-> "obj", v |-> got]]
                       ELSE Fail
    ELSE
        \* the whole document: one value between blanks
        LET top == JsonParse(s, "value", Ws(1), <<>>) IN
        IF top.ok /\ Ws(top.pos) = n + 1
        THEN [ok |-> TRUE, pos |-> n + 1, val |-> top.val]
        ELSE Fail

\* json.loads
json_loads(s) == JsonParse(s, "document", 1, <<>>)

\* str.count of one character.
CountChar(s, c) == Cardinality({i \in 1..Len(s) : s[i] = c})

\* str.find of a substring: the first index, 0 when absent.
FindSub(s, k) ==
    LET at == {i \in 1..(Len(s) - Len(k) + 1) : SubSeq(s, i, i + Len(k) - 1) = k}
    IN  IF at = {} THEN 0 ELSE SetMin(at)

\* Lines 692-703: the text after the first code fence (its optional "json"
\* tag and blanks skipped, a closing fence removed), else the text from the
\* first "{", else the whole text.
JsonText(text) ==
    LET fence == <<"~","~","~">>
        f == FindSub(text, fence) IN
    IF f > 0 THEN
        LET q == IF f + 6 <= Len(text) /\ SubSeq(text, f + 3, f + 6) = <<"j","s","o","n">>
                 THEN f + 7 ELSE f + 3
            body == Strip(SubSeq(text, q, Len(text)))
            m == Len(body)
        IN  IF m >= 3 /\ SubSeq(body, m - 2, m) = fence
            THEN Strip(SubSeq(body, 1, m - 3))
            ELSE body
    ELSE LET b == FindSub(text, <<"{">>) IN
         IF b > 0 THEN SubSeq(text, b, Len(text)) ELSE text

\* Lines 715-731: the first prefix from the first "{" that ends where the
\* brace depth returns to zero and that parses.
RootObject(json_text) ==
    LET start_idx == FindSub(json_text, <<"{">>)
        Depth(i) == CountChar(SubSeq(json_text, start_idx, i), "{")
                    - CountChar(SubSeq(json_text, start_idx, i), "}")
        closes == IF start_idx = 0 THEN {}
                  ELSE {i \in start_idx..Len(json_text) :
                          /\ json_text[i] = "}"
                          /\ Depth(i) = 0
                          /\ json_loads(SubSeq(json_text, start_idx, i)).ok}
    IN  IF closes = {} THEN [ok |-> FALSE, val |-> <<>>]
        ELSE json_loads(SubSeq(json_text, start_idx, SetMin(closes)))

\* Lines 734-752: append "]" only for an open "alternatives" array, then the
\* missing closing braces.
CompletedJson(json_text) ==
    LET missing_braces == CountChar(json_text, "{") - CountChar(json_text, "}")
        bracket == IF /\ Contains(json_text, <<"\"","a","l","t","e","r","n","a","t","i","v","e","s","\"",":"," ","[">>)
                      /\ CountChar(json_text, "[") > CountChar(json_text, "]")
                   THEN <<"]">> ELSE <<>>
    IN  IF missing_braces > 0
        THEN json_text \o bracket \o [i \in 1..missing_braces |-> "}"]
        ELSE <<>>

\* Lines 706-759: parse, repair, and read the names of the result.
ParseResponse(text) ==
    LET Repaired(json_text, first) ==
            IF first.ok THEN first
            ELSE LET Second(root) ==
                         IF root.ok THEN root
                         ELSE json_loads(CompletedJson(json_text))
                 IN  Second(RootObject(json_text))
        NamesOf(pairs) ==
            LET hits == {i \in 1..Len(pairs) : pairs[i].key = <<"p","r","o","d","u","c","t","_","n","a","m","e","s">>}
            IN  IF hits = {} THEN [t |-> "arr", v |-> <<>>]
                ELSE pairs[SetMax(hits)].val
        Listed(names) ==
            IF names.t # "arr" THEN [state |-> "raise", names |-> <<>>]
            ELSE [state |-> "ok", names |-> [i \in 1..Len(names.v) |-> names.v[i].v]]
        Result(data) ==
            IF ~data.ok THEN [state |-> "error", names |-> <<>>]
            ELSE IF data.val.t # "obj" THEN [state |-> "raise", names |-> <<>>]
            ELSE Listed(NamesOf(data.val.v))
        Loaded(json_text) == Result(Repaired(json_text, json_loads(json_text)))
    IN  Loaded(JsonText(text))

\* A complete response text naming k products under a key, with a separator
\* after the colon of the key.
NameListText(key, sep, k) ==
    LET quoted == [i \in 1..k |-> <<"\"">> \o ProviderNames(k)[i] \o <<"\"">>]
        spaced == JoinWords(quoted)
        listed == [i \in 1..Len(spaced) |-> IF spaced[i] = " " THEN "," ELSE spaced[i]]
    IN  <<"{","\"">> \o key \o <<"\"",":">> \o sep \o <<"[">> \o listed \o <<"]","}">>

MaxListed == 2

\* The response texts: bare, with the "alternatives" key, fenced, and
\* surrounded by prose. A response cut by the output-token limit is a prefix
\* of a full text.
LlmTexts ==
    LET FullTexts ==
          UNION {{NameListText(<<"p","r","o","d","u","c","t","_","n","a","m","e","s">>, <<>>, k),
                  NameListText(<<"a","l","t","e","r","n","a","t","i","v","e","s">>, <<" ">>, k),
                  <<"~","~","~","j","s","o","n"," ">> \o NameListText(<<"p","r","o","d","u","c","t","_","n","a","m","e","s">>, <<" ">>, k) \o <<" ","~","~","~">>,
                  <<"S","u","r","e",":"," ">> \o NameListText(<<"p","r","o","d","u","c","t","_","n","a","m","e","s">>, <<>>, k) \o <<" ","o","k">>}
                 : k \in 1..MaxListed}
    IN  UNION {{SubSeq(t, 1, n) : n \in 1..Len(t)} : t \in FullTexts}

\* The parser runs once on the response text.
Parse ==
    /\ llm_data.state = "idle"
    /\ llm_data' = ParseResponse(llm_text)
    /\ UNCHANGED <<llm_text, rdm_products, rdm_category, rdm_output,
                   clVars, genVars, pipeVars>>

ParseInit ==
    /\ llm_text \in LlmTexts
    /\ llm_data = [state |-> "idle", names |-> <<>>]
    /\ RdmIdle /\ ClIdle /\ GenIdle /\ PipeIdle

SpecParse == ParseInit /\ [][Parse]_vars
(***************************************************************************)
(* The request from the search stage on, with collaborators that may       *)
(* never answer.                                                           *)
(***************************************************************************)
\* The provider never answers the enrichment call of the next slot:
\* model.generate_content (main.py:340-348) is called without a timeout and
\* without an await, and gemini_tasks are gathered as they are
\* (main.py:1098-1101), so the coroutine stays in the call.
EnrichNoAnswer ==
    /\ pc = "enrich"
    /\ pc' = "enrich_call"
    /\ UNCHANGED <<source_site, category, product_names, search_results,
                   lookup_done, gemini_results, alternatives, filter_trace,
                   response, clVars, fnVars, genVars>>

NextLive == Next \/ EnrichNoAnswer

\* Every step that can be taken is taken in the end: a lookup that does not
\* answer is ended by wait_for after 12 s (main.py:1060-1063, the
\* "exception" outcome of LookupComplete), the event loop runs every
\* coroutine that is ready, and an enrichment call that gets an answer
\* returns.
SpecLive == PipeInit /\ [][NextLive]_vars /\ WF_vars(NextLive)

(***************************************************************************)
(* Claims.                                                                 *)
(***************************************************************************)
\* the title has the word w (titles are words separated by blanks)
HasWord(title, w) == Contains(<<" ">> \o Lower(title) \o <<" ">>, <<" ">> \o w \o <<" ">>)

\* accessory keyword and the host-device keywords it goes with
AccessoryPairs ==
    {<<<<"c","a","s","e">>, <<"l","a","p","t","o","p">>>>, <<<<"c","a","s","e">>, <<"p","h","o","n","e">>>>, <<<<"c","a","s","e">>, <<"t","a","b","l","e","t">>>>,
     <<<<"s","t","a","n","d">>, <<"l","a","p","t","o","p">>>>, <<<<"s","t","a","n","d">>, <<"p","h","o","n","e">>>>, <<<<"s","t","a","n","d">>, <<"t","a","b","l","e","t">>>>,
     <<<<"b","a","g">>, <<"l","a","p","t","o","p">>>>, <<<<"b","a","g">>, <<"p","h","o","n","e">>>>, <<<<"b","a","g">>, <<"t","a","b","l","e","t">>>>,
     <<<<"c","h","a","r","g","e","r">>, <<"l","a","p","t","o","p">>>>, <<<<"c","h","a","r","g","e","r">>, <<"p","h","o","n","e">>>>, <<<<"c","h","a","r","g","e","r">>, <<"t","a","b","l","e","t">>>>,
     <<<<"t","a","b","l","e">>, <<"l","a","p","t","o","p">>>>}
HostCategories == {<<"l","a","p","t","o","p">>, <<"s","m","a","r","t","p","h","o","n","e">>, <<"t","a","b","l","e","t">>}
IsAccessoryTitle(title) ==
    \E p \in AccessoryPairs : HasWord(title, p[1]) /\ HasWord(title, p[2])

\* C10: a title that has an accessory keyword together with its host-device
\* keyword is never given a host-device category (laptop, smartphone,
\* tablet).
C10_AccessoryNeverHost ==
    (cl_category # <<>> /\ IsAccessoryTitle(cl_title))
        => cl_category \notin HostCategories

\* C1: the names that enter the search stage are at least 3 and at most 6.
C1_SearchNamesThreeToSix ==
    \A r \in Reqs :
        req[r].pc = "search" =>
            Len(req[r].search_names) >= 3 /\ Len(req[r].search_names) <= 6

\* the provider returned fewer than 3 names and the list was padded
C1_Witness ==
    \E r \in Reqs :
        /\ req[r].pc = "search"
        /\ req[r].gen_end = "ok"
        /\ Len(req[r].search_names) = 3
        /\ Contains(req[r].search_names[3], <<"A","l","t","e","r","n","a","t","i","v","e"," ">>)

\* calls the retry loop has made for request r
CallsOf(r) == req[r].calls

\* C6: a quota error with an unused credential left is retried at once on
\* the next credential, and that retry takes none of the max_retries
\* attempts: the attempts used are the calls made less the rotations, and
\* every call that rotated is followed by a call on the next credential
\* before the generator stage ends.
C6_RotationKeepsAttempts ==
    \A r \in Reqs :
        /\ req[r].pc = "attempt" =>
              req[r].attempt = Len(CallsOf(r)) - req[r].rotations
        /\ req[r].pc = "search" =>
              \A i \in 1..Len(CallsOf(r)) :
                  CallsOf(r)[i].rotated =>
                      /\ i < Len(CallsOf(r))
                      /\ CallsOf(r)[i + 1].key = CallsOf(r)[i].key + 1

\* C7: the quota fallback is taken only once every credential from the
\* request's starting index to the last has returned a quota error.
C7_QuotaFallbackAfterAllKeys ==
    \A r \in Reqs :
        (req[r].pc = "search" /\ req[r].gen_end = "quota_fallback") =>
            \A k \in req[r].start_index..(n_keys - 1) :
                \E i \in 1..Len(CallsOf(r)) :
                    CallsOf(r)[i].key = k /\ CallsOf(r)[i].kind = "quota"

\* C8: the credential index never decreases, and a request that starts
\* finds the index where the previous request left it.
C8_IndexMonotonic ==
    [][/\ current_key_index' >= current_key_index
       /\ \A r \in Reqs :
            (req[r].pc = "idle" /\ req'[r].pc # "idle") =>
                /\ req'[r].start_index = last_end_index
                /\ current_key_index' = last_end_index]_vars

\* a later request is calling the provider with the credential the earlier
\* request rotated to
C8_Witness ==
    \E r \in Reqs :
        /\ served >= 1
        /\ req[r].pc = "attempt"
        /\ req[r].start_index >= 1
        /\ req[r].model_key = req[r].start_index
        /\ last_end_index = req[r].start_index

\* C9: no failure of the generator is passed on to the caller; the request
\* goes on to the search stage with fallback names.
C9_GeneratorFailureFallsBack ==
    \A r \in Reqs :
        /\ req[r].pc # "failed"
        /\ req[r].fail_kind # "" =>
              /\ req[r].pc = "search"
              /\ req[r].gen_end \in {"quota_fallback", "basic_fallback"}
              /\ req[r].search_names # <<>>
              /\ req[r].search_names = Take(req[r].product_names, 6)

\* the provider's answer could not be parsed and the basic fallback names
\* went on to the search stage
C9_Witness ==
    \E r \in Reqs :
        /\ req[r].pc = "search"
        /\ req[r].fail_kind = "unparsable"
        /\ req[r].gen_end = "basic_fallback"
        /\ Len(req[r].search_names) = 3

\* The four signals of the quality score and the keep rule, as stated.
ClaimHasImage(alt) == alt.image_url # <<>>
ClaimHasPrice(alt) == alt.price_raw > 0
ClaimScore(alt) ==
    Cardinality({sig \in {"price", "title", "url", "image"} :
        \/ sig = "price" /\ ClaimHasPrice(alt)
        \/ sig = "title" /\ ~Contains(Lower(alt.title), <<"g","e","n","e","r","i","c">>)
        \/ sig = "url" /\ ~(Contains(alt.source_url, <<"/","s","?","k","=">>)
                            \/ Contains(alt.source_url, <<"/","s","e","a","r","c","h","?">>))
        \/ sig = "image" /\ ClaimHasImage(alt)})
ClaimKeeps(alt) ==
    \/ ClaimHasImage(alt) /\ ClaimHasPrice(alt)
    \/ (ClaimHasImage(alt) \/ ClaimHasPrice(alt)) /\ ClaimScore(alt) >= 2

\* C2: the request fails towards its caller only when no candidate survives
\* the quality filter, whatever the source tag of the URL, and the error
\* then names the found and the discarded counts; in every other case it
\* returns a result.
C2_FailsOnlyOnZeroSurvivors ==
    pc = "done" =>
        /\ response.status \in {"ok", "error"}
        /\ response.status = "error" <=>
              \A i \in 1..Len(product_names) : ~ClaimKeeps(BuiltProducts[i])
        /\ response.status = "error" =>
              Contains(response.detail,
                       <<"F","o","u","n","d"," ","0"," ","v","a","l","i","d"," ","p","r","o","d","u","c","t","s",","," ","f","i","l","t","e","r","e","d"," ","o","u","t"," ">>
                       \o IntStr(Len(product_names)))

\* C4: the filter keeps a candidate exactly when it has image and price, or
\* one of the two and a score of at least 2; the score counts the four
\* signals; a candidate with image and price is always kept; nothing
\* survives exactly when every candidate lacks both or has one of the two
\* and a score below 2.
C4_KeepRule ==
    (pc = "done" /\ Len(filter_trace) > 0) =>
        /\ Len(filter_trace) = Len(alternatives)
        /\ \A i \in 1..Len(alternatives) :
              /\ filter_trace[i].quality_score = ClaimScore(alternatives[i])
              /\ filter_trace[i].quality_score \in 0..4
              /\ filter_trace[i].should_keep = ClaimKeeps(alternatives[i])
              /\ (ClaimHasImage(alternatives[i]) /\ ClaimHasPrice(alternatives[i]))
                    => filter_trace[i].should_keep
        /\ response.alternatives = SelectSeq(alternatives, ClaimKeeps)
        /\ response.status = "error" <=>
              \A i \in 1..Len(alternatives) :
                  \/ ~ClaimHasImage(alternatives[i]) /\ ~ClaimHasPrice(alternatives[i])
                  \/ /\ ClaimHasImage(alternatives[i]) # ClaimHasPrice(alternatives[i])
                     /\ ClaimScore(alternatives[i]) < 2

\* a candidate with an image only is kept on its score of 2, and one with a
\* price only is discarded on its score of 1
C4_Witness ==
    /\ pc = "done"
    /\ response.status = "ok"
    /\ \E i, j \in 1..Len(filter_trace) :
          /\ filter_trace[i].should_keep
          /\ ClaimHasImage(alternatives[i]) /\ ~ClaimHasPrice(alternatives[i])
          /\ filter_trace[i].quality_score = 2
          /\ ~filter_trace[j].should_keep
          /\ ClaimHasPrice(alternatives[j])
          /\ filter_trace[j].quality_score = 1

\* C5: there is one result slot per searched name and slot i holds what the
\* lookup of name i ended in, whatever the order of completion; a lookup that
\* raised or timed out is an error value in its own slot, the other slots
\* keep their outcome and the request goes on once every slot is resolved.
C5_SlotPerLookup ==
    pc \in {"search", "enrich", "build", "done"} =>
        /\ Len(search_results) = Len(product_names)
        /\ \A i \in 1..Len(product_names) :
              search_results[i] =
                  IF lookup_done[i] = "pending" THEN SlotPending
                  ELSE OutcomeOf(lookup_done[i], product_names[i], source_site)
        /\ pc # "search" =>
              \A i \in 1..Len(product_names) : lookup_done[i] # "pending"

\* the third lookup has delivered and the second has raised while the first
\* is still running
C5_Witness ==
    /\ pc = "search"
    /\ lookup_done[1] = "pending"
    /\ search_results[2] = SlotException
    /\ search_results[3].kind = "result"

\* C3: the alternatives of a returned result are in descending order of
\* composite score: of two consecutive alternatives the first has a score
\* greater than or equal to the second.
C3_ResultSortedByScore ==
    (pc = "done" /\ response.status = "ok") =>
        LET scores == RdmScores(response.alternatives, category) IN
        \A i \in 1..(Len(scores) - 1) : scores[i] >= scores[i + 1]

\* C11: a request has one category, the one the cascade gives its title: the
\* category that goes on to enrichment and candidate building is that one
\* whether the provider call succeeded, failed with a quota error or failed
\* with another error.
C11_CategoryFromClassifier ==
    \A r \in Reqs :
        req[r].pc = "search" => req[r].category = DetectCategory(req[r].title)

\* C12: every fan-out call has its own timeout, so the request ends, with a
\* result or an error, even when a collaborator never answers a call.
C12_RequestCompletes == <>(pc = "done")

\* C13: when all products of the list have the same price, every product
\* gets the price sub-score 50 (scores are in hundredths of a point).
C13_EqualPricesScoreFifty ==
    (/\ rdm_output.called
     /\ Len(rdm_products) > 0
     /\ \A i, j \in 1..Len(rdm_products) :
            rdm_products[i].price_raw = rdm_products[j].price_raw)
        => \A k \in 1..Len(rdm_output.scored) :
               rdm_output.scored[k].rdm_breakdown.price_score = 5000

\* C14: products with the same price, rating, rating count, title and specs
\* get the same composite score, and products of equal composite score are
\* returned in the order they had in the input.
C14_StableEqualScores ==
    rdm_output.called =>
        LET out == rdm_output.scored IN
        /\ Len(out) = Len(rdm_products)
        /\ \A k, l \in 1..Len(out) :
              /\ rdm_products[out[k].idx] = rdm_products[out[l].idx]
                    => out[k].rdm_score = out[l].rdm_score
              /\ (k < l /\ out[k].rdm_score = out[l].rdm_score)
                    => out[k].idx < out[l].idx

\* the same product came first and last in the input, and the sort moved
\* the product between them to the front
C14_Witness ==
    /\ rdm_output.called
    /\ Len(rdm_products) = 3
    /\ rdm_products[1] = rdm_products[3]
    /\ rdm_products[1] # rdm_products[2]
    /\ rdm_output.scored[1].idx = 2
    /\ rdm_output.scored[2].idx = 1
    /\ rdm_output.scored[3].idx = 3

\* C18: each of the five sub-scores and the composite score is between 0
\* and 100 (sub-scores in hundredths, the composite in tenths of a point).
C18_ScoresInRange ==
    rdm_output.called =>
        \A k \in 1..Len(rdm_output.scored) :
            LET p == rdm_output.scored[k]
                b == p.rdm_breakdown
            IN /\ p.rdm_score >= 0 /\ p.rdm_score <= 1000
               /\ \A s \in {b.price_score, b.rating_score, b.review_score,
                            b.feature_score, b.ownership_score} :
                      s >= 0 /\ s <= 10000


\* The claim's truncated text: the name-list object cut after k complete
\* names, before the array closes.
TruncatedMidArray(k) ==
    LET full == NameListText(<<"p","r","o","d","u","c","t","_","n","a","m","e","s">>, <<>>, k)
    IN  SubSeq(full, 1, Len(full) - 2)

\* C15: a name-list object truncated in the middle of its array is repaired
\* and the parser returns the names present instead of failing.
C15_TruncatedArrayRecovered ==
    \A k \in 1..MaxListed :
        (llm_text = TruncatedMidArray(k) /\ llm_data.state # "idle")
            => (llm_data.state = "ok" /\ llm_data.names = ProviderNames(k))

\* candidates the filter discarded, read from the verdicts
DiscardedCount == Cardinality({i \in 1..Len(filter_trace) : ~filter_trace[i].should_keep})

DiscardMessage(n) == <<"F","i","l","t","e","r","e","d"," ","o","u","t"," ">> \o IntStr(n) \o <<" ","l","o","w","-","q","u","a","l","i","t","y"," ","r","e","s","u","l","t","s">>
TooFewMessage(n) == <<"O","n","l","y"," ">> \o IntStr(n) \o <<" ","a","l","t","e","r","n","a","t","i","v","e","s"," ","f","o","u","n","d">>
HasWarning(w) == \E i \in 1..Len(response.warnings) : response.warnings[i] = w

\* C16: in a successful response the warnings hold the discarded-count
\* message iff at least one candidate was discarded, the too-few message iff
\* fewer than three survived, and are empty when three or more survived and
\* none was discarded.
C16_WarningsMatchFilter ==
    response.status = "ok" =>
        LET survived == Len(response.alternatives) IN
        /\ survived >= 1
        /\ HasWarning(DiscardMessage(DiscardedCount)) <=> DiscardedCount >= 1
        /\ HasWarning(TooFewMessage(survived)) <=> survived < 3
        /\ Len(response.warnings)
             = (IF DiscardedCount >= 1 THEN 1 ELSE 0) + (IF survived < 3 THEN 1 ELSE 0)
        /\ (survived >= 3 /\ DiscardedCount = 0) => response.warnings = <<>>
        /\ \A n \in 3..MaxNamesCap : \A f \in 1..MaxNamesCap :
               Warnings(n, f) = <<DiscardMessage(f)>>

\* a successful response after a discard that left fewer than three
C16_Witness ==
    /\ response.status = "ok"
    /\ DiscardedCount >= 1
    /\ Len(response.alternatives) < 3
    /\ Len(response.warnings) = 2


\* the lookup of slot i gave a direct product link
DirectLinkAt(i) ==
    /\ search_results[i].kind = "result"
    /\ LET u == search_results[i].data.url IN
       /\ Contains(u, <<"/","d","p","/">>) \/ Contains(u, <<"/","p","/">>)
       /\ ~Contains(u, <<"/","s","?","k","=">>)

\* C17: every built candidate has a non-empty title and a non-empty source
\* URL, and without a direct product link the URL is a search URL for the
\* candidate's name, whatever the lookup of its slot ended in.
C17_CandidateTitleAndUrl ==
    pc = "done" =>
        \A i \in 1..Len(alternatives) :
            /\ Len(alternatives[i].title) > 0
            /\ Len(alternatives[i].source_url) > 0
            /\ ~DirectLinkAt(i) =>
                   Contains(alternatives[i].source_url,
                            ReplaceSpaces(alternatives[i].model))

\* C19: the j-th backoff wait of a generator call is base * 2^(j-1), the
\* exponent being the number of backoff waits the call already made (2 s,
\* then 4 s), and a transient error on the last attempt is propagated
\* without a wait.
C19_BackoffDoubles ==
    \A r \in Reqs :
        /\ \A j \in 1..Len(req[r].sleeps) :
               req[r].sleeps[j] = BaseDelay * (2 ^ (j - 1))
        /\ (/\ Len(CallsOf(r)) = MaxRetries
            /\ CallsOf(r)[MaxRetries].kind = "overloaded")
               => (/\ req[r].pc \in {"search", "failed"}
                   /\ req[r].fail_kind = "overloaded"
                   /\ Len(req[r].sleeps) < MaxRetries)

\* outcomes that are a safety block or a provider error that is neither
\* transient nor a quota error
TerminalKinds == {"safety", "no_candidates", "other"}

\* C20: a provider call that ends in a safety block, or in an error that is
\* neither transient nor quota, ends the generator call: the step makes no
\* backoff wait and leaves the credential index alone, and the provider is
\* not invoked again for the request.
C20_TerminalErrorEndsCall ==
    [][\A r \in Reqs :
          /\ (/\ Len(req'[r].calls) = Len(req[r].calls) + 1
              /\ req'[r].calls[Len(req'[r].calls)].kind \in TerminalKinds)
                 => (/\ current_key_index' = current_key_index
                     /\ req'[r].sleeps = req[r].sleeps
                     /\ req'[r].pc \in {"search", "failed"})
          /\ req[r].pc \in {"search", "failed"}
                 => (req'[r].calls = req[r].calls \/ req'[r] = IdleReq)]_vars

\* a first provider call blocked for safety while a second key and two more
\* attempts were left
C20_Witness ==
    \E r \in Reqs :
        /\ n_keys >= 2
        /\ Len(CallsOf(r)) = 1
        /\ CallsOf(r)[1].kind = "safety"
        /\ req[r].pc \in {"search", "failed"}

\* C21: the enrichment calls of a request run concurrently: while the call
\* of a slot is outstanding and a later slot exists, the call of the later
\* slot is issued all the same, so the request leaves the outstanding call.
C21_EnrichmentConcurrent ==
    (pc = "enrich_call" /\ Len(gemini_results) + 1 < Len(product_names))
        ~> (pc # "enrich_call")

\* C22: with requests in flight together the credential index is always a
\* position 0..n-1 of the credential list, a step that rotates raises it by
\* exactly 1 and no other step changes it.
C22_IndexValidNoLock ==
    /\ [](current_key_index \in 0..(n_keys - 1))
    /\ [][/\ current_key_index' \in {current_key_index, current_key_index + 1}
          /\ \A r \in Reqs :
               (/\ Len(req'[r].calls) = Len(req[r].calls) + 1
                /\ req'[r].calls[Len(req'[r].calls)].rotated)
                   => current_key_index' = current_key_index + 1
          /\ (\A r \in Reqs : req'[r].rotations = req[r].rotations \/ req'[r] = IdleReq)
                   => current_key_index' = current_key_index]_vars

\* two requests in flight, one asleep in its backoff while the other has
\* rotated to the last credential
C22_Witness ==
    \E r \in Reqs : \E o \in Reqs \ {r} :
        /\ req[o].pc = "sleep"
        /\ req[r].rotations >= 1
        /\ req[r].pc # "idle"
        /\ current_key_index = n_keys - 1

\* C29: a step that advances the credential index from i to i+1 is taken on
\* a quota error of a provider call made with credential i.
C29_RotationFromCurrentCredential ==
    [][\A r \in Reqs :
          (/\ Len(req'[r].calls) = Len(req[r].calls) + 1
           /\ req'[r].calls[Len(req'[r].calls)].rotated)
              => (/\ req'[r].calls[Len(req'[r].calls)].kind = "quota"
                  /\ req'[r].calls[Len(req'[r].calls)].key = current_key_index)]_vars

\* seconds slept in all
RECURSIVE SleepTotal(_)
SleepTotal(sleeps) ==
    IF Len(sleeps) = 0 THEN 0 ELSE Head(sleeps) + SleepTotal(Tail(sleeps))

C23_StagesNeverOverlap ==
    /\ Len(product_names) >= 1
    /\ Len(search_results) = Len(product_names)
    /\ pc = "search" => gemini_results = <<>>
    /\ (pc # "search" \/ Len(gemini_results) > 0) =>
          \A i \in 1..Len(product_names) :
              lookup_done[i] # "pending" /\ search_results[i] # SlotPending
    /\ pc \in {"search", "enrich"} =>
          alternatives = <<>> /\ filter_trace = <<>> /\ response = NoResponse
    /\ (pc \in {"build", "done"} \/ alternatives # <<>> \/ response # NoResponse) =>
          Len(gemini_results) = Len(product_names)

\* the enrichment stage is under way after lookups that ended in a value, in
\* nothing and in an error
C23_Witness ==
    /\ pc = "enrich"
    /\ Len(gemini_results) >= 1
    /\ \E i, j, k \in 1..Len(product_names) :
          /\ lookup_done[i] = "exception"
          /\ lookup_done[j] = "none"
          /\ lookup_done[k] = "full"

\* slots whose lookup raised, timed out or returned nothing
FailedLookups == {i \in 1..Len(product_names) : lookup_done[i] \in {"exception", "none"}}

\* C27: a candidate whose lookup failed is built with no image and price 0
\* and the filter discards it; a request all of whose lookups failed ends
\* in the zero-survivor error.
C27_FailedLookupDiscarded ==
    pc = "done" =>
        /\ \A i \in FailedLookups :
              /\ Len(alternatives) = Len(product_names)
              /\ alternatives[i].image_url = <<>>
              /\ alternatives[i].price_raw = 0
              /\ ~filter_trace[i].should_keep
              /\ \A k \in 1..Len(response.alternatives) :
                    response.alternatives[k].id # IntStr(i)
        /\ FailedLookups = 1..Len(product_names) =>
              response = BackendError(ZeroSurvivorMessage(0, Len(product_names)))

\* slots the filter keeps
KeptSlots == {i \in 1..Len(filter_trace) : filter_trace[i].should_keep}

\* C28: when the filter has run, survivors and discarded together are the
\* built candidates, one per name searched; the survivors are returned in
\* slot order under their slot ids, none twice and none added.
C28_FilterPartitions ==
    (pc = "done" /\ filter_trace # <<>>) =>
        /\ Len(alternatives) = Len(product_names)
        /\ Len(filter_trace) = Len(alternatives)
        /\ \A i \in 1..Len(alternatives) : alternatives[i].id = IntStr(i)
        /\ Len(response.alternatives) + (Len(alternatives) - Cardinality(KeptSlots))
              = Len(product_names)
        /\ \A k \in 1..Len(response.alternatives) :
              \E i \in KeptSlots :
                  /\ response.alternatives[k] = alternatives[i]
                  /\ Cardinality({j \in KeptSlots : j <= i}) = k
        /\ response.status = "error" <=> KeptSlots = {}

\* three candidates built, the middle one discarded
C28_Witness ==
    /\ pc = "done"
    /\ response.status = "ok"
    /\ Len(alternatives) = 3
    /\ KeptSlots = {1, 3}

\* C30: an enrichment call leaves the credential index and the configured
\* credential as they are and returns a value, the regex-derived fallback
\* on an error of the provider; it never raises.
C30_EnrichmentLeavesIndex ==
    [][Len(gemini_results') = Len(gemini_results) + 1 =>
          /\ current_key_index' = current_key_index
          /\ configured_key' = configured_key
          /\ gemini_results'[Len(gemini_results')].kind = "value"]_vars

\* products of the call that carry rating-count data, and their largest count
CarryingCount ==
    {i \in 1..Len(rdm_products) :
        /\ rdm_products[i].rating_count_estimate # NoneInt
        /\ rdm_products[i].rating_count_estimate >= 1}
MaxCarried ==
    IF CarryingCount = {} THEN 0
    ELSE SetMax({rdm_products[i].rating_count_estimate : i \in CarryingCount})

\* C24: every product gets the review score 50 when fewer than two products
\* carry rating-count data (a rating without a count is no such data) or the
\* largest count is below 50; else 100 * log(1 + count) / log(1 + max), and
\* 0 for a product without a count.
C24_ReviewScoreNeutral ==
    rdm_output.called =>
        \A k \in 1..Len(rdm_output.scored) :
            rdm_output.scored[k].rdm_breakdown.review_score =
                IF Cardinality(CarryingCount) < 2 \/ MaxCarried < 50 THEN 5000
                ELSE IF rdm_output.scored[k].idx \in CarryingCount
                THEN LongDiv(LnMicro[1 + rdm_products[rdm_output.scored[k].idx].rating_count_estimate],
                             LnMicro[1 + MaxCarried], 4)
                ELSE 0

\* values of an attribute observed in the products of the call
Observed(enriched, f) ==
    {enriched[i][f] : i \in {k \in 1..Len(enriched) :
                        enriched[k][f] # NoneInt /\ enriched[k][f] # 0}}

\* the default ranges of a category (rdm_calculator.py:302-316)
DefaultRanges(cat) ==
    IF cat = <<"l","a","p","t","o","p">>
    THEN [ram |-> <<8, 32>>, storage |-> <<256, 2048>>, battery |-> <<3000, 8000>>,
          size |-> <<NoneInt, NoneInt>>]
    ELSE IF cat \in PhoneCategories
    THEN [ram |-> <<4, 12>>, storage |-> <<64, 512>>, battery |-> <<4000, 6000>>,
          size |-> <<NoneInt, NoneInt>>]
    ELSE [ram |-> <<4, 16>>, storage |-> <<64, 512>>, battery |-> <<4000, 6000>>,
          size |-> <<600, 5500>>]

\* attribute of the range and field of the product that feeds it
RangeFields ==
    {<<"ram", "ram_gb">>, <<"storage", "storage_gb">>, <<"battery", "battery_mah">>,
     <<"size", "display_size">>}

DegenerateUsesDefault(enriched, cat) ==
    \A a \in RangeFields :
        (/\ Cardinality(Observed(enriched, a[2])) = 1
         /\ DefaultRanges(cat)[a[1]] # <<NoneInt, NoneInt>>)
            => RdmRanges(enriched, cat)[a[1]] = DefaultRanges(cat)[a[1]]

\* C25: an attribute whose observed values are all one value is normalized
\* over the default range of the category.
C25_DegenerateRangeDefault ==
    rdm_output.called => DegenerateUsesDefault(Enriched(rdm_products, rdm_category), rdm_category)
====
